---- MODULE Spec2Model ----
(***************************************************************************)
(* Model of the FightPoverty backend's transaction engine:                 *)
(*   src/src/services/transaction_service.py  (create_transaction)         *)
(*   src/src/routers/allocations.py           (create_allocation)          *)
(*   src/src/db/repositories.py               (Redis repositories, lock)   *)
(* Every request handler is a call c with a program counter; one action is *)
(* one round trip to the shared Redis store (one command, or the commands  *)
(* of one read), so that the handlers of concurrent requests interleave    *)
(* between any two commands.                                               *)
(***************************************************************************)
EXTENDS Integers, FiniteSets, Sequences, TLC

\* ------------------------------------------------------------------ bounds
MaxAmount == 2          \* request amounts are 1..MaxAmount
MaxBalance == 3         \* initial balances are 0..MaxBalance
AllocLimit == 1         \* stored config value max_allocation_limit
BalanceLimit == 4       \* stored config value max_balance_limit
TickSeconds == 15       \* seconds by which one TimePasses step advances the clock

MaxRecords == 3         \* a history holds the transactions 1..MaxRecords at most
MaxTime == 3            \* creation timestamps are 1..MaxTime
MaxLimit == 2           \* the limit of a listing request is 1..MaxLimit
MonthDays == 3          \* the number of days of a calendar month

\* ------------------------------------------------------- program constants
LockTimeout == 30       \* acquire_lock(homeless.id, timeout=30)

\* ---------------------------------------------------------------- universe
None == "None"
Calls == {"c1", "c2"}
Homeless == {"h1", "h2"}
Stores == {"s1", "s2", "s3"}        \* "s3" is the store POST /stores creates
Products == {"p1", "p2", "px"}      \* "px" is the product create_product creates

ACTIVE == "active"
INACTIVE == "inactive"
SUSPENDED == "suspended"
Status == {ACTIVE, INACTIVE, SUSPENDED}

\* the empty string: what update() stores for a field the body sets to null
BLANK == ""

\* names of beneficiaries (name: 1 to 100 characters)
Names == {"nm1"}

COMPLETED == "completed"

\* QR codes and product ids a request can carry; "qhx" resolves to nothing,
\* "qsx" and "px" resolve to nothing until a store or a product is created
\* under them.
HomelessQRs == {"qh1", "qh2", "qhx"}
StoreQRs == {"qs1", "qs2", "qsx"}
ProductIds == Products \cup {None}

\* store_id = uuid4() and product_id = uuid4() of the create routes, and the
\* codes generate_store_qr_code() can return
NewStore == "s3"
NewProduct == "px"
GeneratedStoreQRs == {"qsx"}

\* what the bodies of the store and product routes carry beside a name:
\* association_id, points (as Redis stores them: a string), category
StoreAssociations == {"a1"}
Points == {"1"}
Categories == {"meals"}

\* the settings create_allocation reads, and the value a PATCH /config/{key}
\* can store: any string
ConfigKeys == {"max_allocation_limit", "max_balance_limit"}
ConfigValues == {ToString(AllocLimit + 1), ToString(BalanceLimit - 1), "many"}

\* the codes generate_homeless_qr_code() can return, and all beneficiary codes
GeneratedQRs == {"qhx", "qhy"}
QRCodes == HomelessQRs \cup GeneratedQRs

\* calendar days of the server clock (the key of a daily bucket)
Days == {"d1", "d2"}

\* national id numbers (id_number)
IdNumbers == {"i1", "i2", "i3"}

\* user requests; user ids (uuid4: the request r_i creates the user u_i),
\* usernames, two of the UserRole values, association ids
UserCalls == {"r1", "r2", "r3"}
Users == {"u1", "u2", "u3"}
Usernames == {"n1", "n2"}
Roles == {"ngo_partner", "association_admin"}
Associations == {"a1", "a2"}

\* error codes of the TransactionError hierarchy, plus the two untyped outcomes
OK == "OK"
VALUE_ERROR == "VALUE_ERROR"            \* ValueError: day is out of range for month,
                                        \* invalid literal for int()
HOMELESS_NOT_FOUND == "HOMELESS_NOT_FOUND"
HOMELESS_INACTIVE == "HOMELESS_INACTIVE"
STORE_NOT_FOUND == "STORE_NOT_FOUND"
STORE_INACTIVE == "STORE_INACTIVE"
PRODUCT_INACTIVE == "PRODUCT_INACTIVE"
TRANSACTION_LOCKED == "TRANSACTION_LOCKED"
INSUFFICIENT_BALANCE == "INSUFFICIENT_BALANCE"
INFRA_FAULT == "INFRA_FAULT"            \* a Redis error raised by a write
ATTRIBUTE_ERROR == "ATTRIBUTE_ERROR"    \* 'NoneType' object has no attribute 'id'
ALLOCATION_LIMIT_EXCEEDED == "ALLOCATION_LIMIT_EXCEEDED"
BALANCE_LIMIT_EXCEEDED == "BALANCE_LIMIT_EXCEEDED"
ALLOC_NOT_FOUND == "ALLOC_NOT_FOUND"
ALLOC_INACTIVE == "ALLOC_INACTIVE"
HTTP_NOT_FOUND == "HTTP_NOT_FOUND"      \* the 404 of the management routes
HTTP_CONFLICT == "HTTP_CONFLICT"        \* the 409 of POST /homeless
HTTP_BAD_REQUEST == "HTTP_BAD_REQUEST"  \* the 400 of POST /users
VALIDATION_ERROR == "VALIDATION_ERROR"  \* pydantic ValidationError: HomelessPerson(**data)
                                        \* on a hash that lacks required fields

VARIABLES
    hExists,    \* homeless:{id} hash is present in Redis with all its fields
    hPartial,   \* the ids whose homeless:{id} key was created by an HSET of single
                \* fields after the hash had been removed
    balance,    \* homeless:{id} field balance
    hStatus,    \* homeless:{id} field status
    hName,      \* homeless:{id} field name
    hQrIndex,   \* homeless:qr:{qr_code} => homeless id
    sStatus,    \* store:{id} field status
    income,     \* store:{id} field total_income
    sQrIndex,   \* store:qr:{qr_code} => store id
    pStatus,    \* product:{id} field status
    lock,       \* lock:homeless:{id}: Absent, or [owner, ttl]; owner is history only
    txs,        \* transaction:{id} hashes
    allocs,     \* allocation:{id} hashes
    call,       \* per call: program counter, request, locals, outcome
    expired,    \* history: calls whose lock key expired inside their try block
    balance0,   \* history: the balances of the initial state
    txIndex,    \* homeless:{id}:transactions, store:{id}:transactions,
                \* transactions:daily:{date}: the members, as [idx, of, id]
    hQrCode,    \* homeless:{id} field qr_code
    today,      \* the date of the server clock
    users,      \* the keys of UserRepository
    idNumbers,  \* homeless:{id} field id_number and homeless:id_number:{n} => id
    listing,    \* a listing request in progress: its data, arguments and result
    sData,      \* store:{id}: whether the hash is present, fields name and
                \* association_id
    pData,      \* product:{id}: whether the hash is present, fields name, points
                \* and category
    config      \* config:{key} field value

vars == <<hExists, hPartial, balance, hStatus, hName, hQrIndex, sStatus, income, sQrIndex,
          pStatus, lock, txs, allocs, call, expired, balance0,
          txIndex, hQrCode, today, users, idNumbers, listing, sData, pData, config>>

\* the store and product fields beside status, and the settings
catalog == <<sData, pData, config>>

\* what neither create_transaction nor create_allocation writes
outside == <<hQrCode, today, users, idNumbers, listing, catalog>>

store == <<hExists, hPartial, balance, hStatus, hName, hQrIndex, sStatus, income,
          sQrIndex, pStatus>>

\* the lock key when it does not exist (never set, deleted or expired)
Absent == [owner |-> None, ttl |-> 0]

\* error payloads (the details dict); -1 stands for a key the payload lacks.
\* ref is the qr_code / homeless_id / store_id / product_id of the typed
\* lookup errors.
NoDetails == [ref |-> None, current_balance |-> -1, required |-> -1,
              requested |-> -1, max_limit |-> -1]
RefDetails(r) == [NoDetails EXCEPT !.ref = r]

\* the two arguments stored under each other's key
BalanceDetails_swapped(cur, req) ==
    [NoDetails EXCEPT !.current_balance = req, !.required = cur]

\* InsufficientBalanceError(current_balance, required)
BalanceDetails(cur, req) ==
    [NoDetails EXCEPT !.current_balance = cur, !.required = req]

\* details of ALLOCATION_LIMIT_EXCEEDED and of BALANCE_LIMIT_EXCEEDED
AllocLimitDetails(limit, req) == [NoDetails EXCEPT !.max_limit = limit, !.requested = req]
BalanceLimitDetails(cur, req, limit) ==
    [NoDetails EXCEPT !.current_balance = cur, !.requested = req, !.max_limit = limit]

\* the position of a user request: the route and command it is at, its
\* arguments, and the record its get_by_id read
NoUserCall == [pc |-> "idle", op |-> None, id |-> None, username |-> None,
               role |-> None, association_id |-> None, result |-> None,
               settled |-> FALSE]   \* history: the create of the user had
                                    \* returned when this delete arrived

\* the user keys: user:{id} (NoUser when the hash is absent),
\* user:username:{name}, users:role:{role}, users:all, association:{id}:users;
\* partial is the ids whose user:{id} hash holds single fields only, written
\* by HSET on an absent key; req is the user requests in progress
NoUser == [username |-> None, role |-> None, association_id |-> None]
NoUsers ==
    [req |-> [r \in UserCalls |-> NoUserCall],
     rec |-> [u \in Users |-> NoUser],
     partial |-> {},
     byName |-> [n \in Usernames |-> None],
     byRole |-> [r \in Roles |-> {}],
     all |-> {},
     byAssoc |-> [a \in Associations |-> {}]]

\* the id_number fields and the homeless:id_number index after seeding
SeededIdNumbers ==
    [field |-> [h \in Homeless |-> IF h = "h1" THEN "i1" ELSE "i2"],
     index |-> [n \in IdNumbers |->
                  IF n = "i1" THEN "h1" ELSE IF n = "i2" THEN "h2" ELSE None]]

\* no listing request
NoListing == [op |-> None]

\* ------------------------------------------------------------- call record
\* the body of a TransactionCreate or AllocationCreate request; NoReq when
\* none is remembered
NoReq == [hqr |-> None, sqr |-> None, pid |-> None, homeless_id |-> None, amount |-> 0]
Request(hq, sq, p, a) == [NoReq EXCEPT !.hqr = hq, !.sqr = sq, !.pid = p, !.amount = a]
AllocRequest(hid, a) == [NoReq EXCEPT !.homeless_id = hid, !.amount = a]

IdleCall ==
    [pc |-> "idle", kind |-> None,
     keep |-> FALSE,         \* history: whether the request body is remembered
     beside |-> FALSE,       \* history: a reissue of the same beneficiary was in
                             \* progress when this reissue began
     request |-> NoReq,      \* history: the request body the handler got
     hqr |-> None, sqr |-> None, hid |-> None, amount |-> 0,
     pid |-> None,           \* data.product_id until step 3 has looked at it
     homeless |-> None,      \* the local variable `homeless` (None or an id)
     arg |-> None,           \* update: the new field value; reissue: new_qr_code
     field |-> None,         \* store or product update: the field of the body
     limit |-> -1,           \* the local max_allocation_limit (-1: not yet read)
     day |-> None,           \* TransactionRepository.create: the date of `now`
     sid |-> None,           \* store.id
     bb |-> 0, ba |-> 0,     \* balance_before, balance_after
     exc |-> None,           \* exception in flight inside the try block
     result |-> None,        \* what the caller finally sees
     details |-> NoDetails]  \* error payload

\* pcs of create_transaction between the successful acquire_lock and the end
\* of the finally block
InTry == {"t_reread", "t_exists", "t_debit", "t_stamp", "t_income", "t_ledger",
          "t_zhome", "t_zstore", "t_daily", "t_release"}

\* a store or product hash that is absent, and one as create() writes it
\* (association_id is left out of the hash when the body has none)
NoStore == [present |-> FALSE, name |-> None, association_id |-> None]
NoProduct == [present |-> FALSE, name |-> None, points |-> None, category |-> None]
StoreFields(nm, a) == [present |-> TRUE, name |-> nm, association_id |-> a]
ProductFields(nm, pt, cat) ==
    [present |-> TRUE, name |-> nm, points |-> pt, category |-> cat]

\* the settings as PATCH /config stored them, and with no config:{key} hash
SeededConfig ==
    [k \in ConfigKeys |-> IF k = "max_allocation_limit" THEN ToString(AllocLimit)
                          ELSE ToString(BalanceLimit)]
NoConfig == [k \in ConfigKeys |-> None]

\* the stores and products after seeding: store s1 and product p1 are active,
\* s2 and p2 were soft-deleted, s3 and px are not created
InitGoods ==
    /\ sStatus = [s \in Stores |-> IF s = "s1" THEN ACTIVE
                                   ELSE IF s = "s2" THEN INACTIVE ELSE None]
    /\ income = [s \in Stores |-> 0]
    /\ sQrIndex = [q \in StoreQRs |->
                     IF q = "qs1" THEN "s1" ELSE IF q = "qs2" THEN "s2" ELSE None]
    /\ sData = [s \in Stores |-> IF s = NewStore THEN NoStore
                                 ELSE StoreFields("nm1", None)]
    /\ pStatus = [p \in Products |-> IF p = "p1" THEN ACTIVE
                                     ELSE IF p = "p2" THEN INACTIVE ELSE None]
    /\ pData = [p \in Products |-> IF p = NewProduct THEN NoProduct
                                   ELSE ProductFields("nm1", "1", "meals")]

\* the same after POST /stores and POST /stores/{id}/products have returned:
\* s3 is stored with its code indexed, and px is stored
InitOpened ==
    /\ sStatus = [s \in Stores |-> IF s = "s2" THEN INACTIVE ELSE ACTIVE]
    /\ income = [s \in Stores |-> 0]
    /\ sQrIndex = [q \in StoreQRs |->
                     IF q = "qs1" THEN "s1" ELSE IF q = "qs2" THEN "s2" ELSE NewStore]
    /\ sData = [s \in Stores |-> StoreFields("nm1", None)]
    /\ pStatus = [p \in Products |-> IF p = "p2" THEN INACTIVE ELSE ACTIVE]
    /\ pData = [p \in Products |-> ProductFields("nm1", "1", "meals")]

\* the same with both settings stored by PATCH /config
InitCatalog == InitGoods /\ config = SeededConfig

\* The beneficiary keys after seeding: h1 is active with any balance, h2 has
\* any status; no lock, no record, no user.
InitPeople ==
    /\ hExists = [h \in Homeless |-> TRUE]
    /\ hPartial = {}
    /\ balance \in {b \in [Homeless -> 0..MaxBalance] : b["h2"] = MaxBalance}
    /\ hStatus \in {st \in [Homeless -> Status] : st["h1"] = ACTIVE}
    /\ hName = [h \in Homeless |-> "nm1"]
    /\ hQrIndex = [q \in QRCodes |->
                     IF q = "qh1" THEN "h1" ELSE IF q = "qh2" THEN "h2" ELSE None]
    /\ lock = [h \in Homeless |-> Absent]
    /\ txs = {}
    /\ allocs = {}
    /\ expired = {}
    /\ balance0 = balance
    /\ txIndex = {}
    /\ hQrCode = [h \in Homeless |-> IF h = "h1" THEN "qh1" ELSE "qh2"]
    /\ today = "d1"
    /\ users = NoUsers
    /\ idNumbers = SeededIdNumbers

\* The store after seeding
InitKeys == InitPeople /\ InitGoods

\* no listing request is in progress; both settings were stored by PATCH
\* /config
InitStore == InitKeys /\ listing = NoListing /\ config = SeededConfig

Init == InitStore /\ call = [c \in Calls |-> IdleCall]

\* every variable but call
shared == <<store, lock, txs, allocs, expired, balance0, txIndex, outside>>

\* ------------------------------------------------------------ repositories
\* HomelessPerson(**data) of a hash that has all its fields: the empty string
\* is no Status value, no id_number (pattern) and no name (min_length = 1)
Unparsable(h) ==
    hStatus[h] = BLANK \/ idNumbers.field[h] = BLANK \/ hName[h] = BLANK

\* HomelessPersonRepository.get_by_id: None when HGETALL returns nothing;
\* _parse_homeless raises on a hash that lacks required fields or holds an
\* empty one
get_by_id(h) ==
    IF h = None THEN None
    ELSE IF h \in hPartial THEN VALIDATION_ERROR
    ELSE IF ~hExists[h] THEN None
    ELSE IF Unparsable(h) THEN VALIDATION_ERROR
    ELSE h

\* HomelessPersonRepository.get_by_qr_code: GET of the index, then get_by_id
get_by_qr_code(q) == IF hQrIndex[q] = None THEN None ELSE get_by_id(hQrIndex[q])

\* EXISTS homeless:{id}
key_exists(h) == hExists[h] \/ h \in hPartial

\* the incomplete hashes after HSET homeless:{id} <field> <value>: the command
\* creates the key it does not find, with that one field
hset_creates(h) == IF hExists[h] THEN hPartial ELSE hPartial \cup {h}

\* update(): the string HSET stores for a value of the body; a None value is
\* stored as the empty string
hset_value(v) == IF v = None THEN BLANK ELSE v

\* the numbers a stored string can spell, and int() of such a string; int()
\* raises ValueError for every other string, the empty one among them
Numbers == (0..(BalanceLimit + 1)) \cup {1000, 10000}
Numerals == {ToString(n) : n \in Numbers}
int(v) == CHOOSE n \in Numbers : ToString(n) = v

\* StoreRepository.get_by_id: None when HGETALL returns nothing; Store(**data)
\* raises on an empty status, an empty name (min_length = 1) and an empty
\* association_id (no UUID)
store_get_by_id(s) ==
    IF ~sData[s].present THEN None
    ELSE IF sStatus[s] = BLANK \/ sData[s].name = BLANK
            \/ sData[s].association_id = BLANK THEN VALIDATION_ERROR
    ELSE s

\* StoreRepository.get_by_qr_code: GET of the index, then get_by_id
store_get_by_qr_code(q) ==
    IF sQrIndex[q] = None THEN None ELSE store_get_by_id(sQrIndex[q])

\* ProductRepository.get_by_id: None for an id that is not stored;
\* _parse_product raises ValueError at int(data["points"]) for points that
\* spell no number, and Product(**data) raises on an empty status, an empty
\* name (min_length = 1) and an empty category (no ProductCategory)
product_get_by_id(p) ==
    IF p = None \/ ~pData[p].present THEN None
    ELSE IF pData[p].points \notin Numerals THEN VALUE_ERROR
    ELSE IF pStatus[p] = BLANK \/ pData[p].name = BLANK
            \/ pData[p].category = BLANK THEN VALIDATION_ERROR
    ELSE p

\* acquire_lock without the NX flag: the SET always succeeds and overwrites
acquire_lock_noNX(lk, c, timeout) ==
    [ok |-> TRUE, lock |-> [owner |-> c, ttl |-> timeout]]

\* HomelessPersonRepository.acquire_lock: SET lock_key "locked" NX EX timeout.
\* ok is the truthiness of the reply; lock is the key afterwards.
acquire_lock(lk, c, timeout) ==
    [ok |-> lk = Absent,
     lock |-> IF lk = Absent THEN [owner |-> c, ttl |-> timeout] ELSE lk]

\* HomelessPersonRepository.release_lock: DEL lock_key, whoever set it
release_lock(lk) == Absent

\* the new balance taken for the amount to take off
hset_balance_by(h, newBalance) == [balance EXCEPT ![h] = @ - newBalance]

\* update_balance, second command: HSET homeless:{id} balance new_balance
hset_balance(h, newBalance) == [balance EXCEPT ![h] = newBalance]

\* the income written with HSET: the amount replaces the total
update_income_set(s, amount) == [income EXCEPT ![s] = amount]

\* StoreRepository.update_income: HINCRBY total_income amount
update_income(s, amount) == [income EXCEPT ![s] = @ + amount]

\* the balance check left out
Insufficient_never(balanceAfter) == FALSE

\* the balance check with <= in place of <: a purchase of the whole balance
\* is refused
Insufficient_orZero(balanceAfter) == balanceAfter <= 0

\* the balance check of create_transaction
Insufficient(balanceAfter) == balanceAfter < 0

\* balance_before and balance_after passed in each other's place
TxRecord_swapped(c, h, hq, s, sq, amount, bb, ba) ==
    [id |-> c, homeless_id |-> h, homeless_qr_code |-> hq,
     store_id |-> s, store_qr_code |-> sq, amount |-> amount,
     balance_before |-> ba, balance_after |-> bb, status |-> COMPLETED]

\* the record TransactionRepository.create writes (tx_id = uuid4(), one per call)
TxRecord(c, h, hq, s, sq, amount, bb, ba) ==
    [id |-> c, homeless_id |-> h, homeless_qr_code |-> hq,
     store_id |-> s, store_qr_code |-> sq, amount |-> amount,
     balance_before |-> bb, balance_after |-> ba, status |-> COMPLETED]

\* balance_before and balance_after passed in each other's place
AllocRecord_swapped(c, h, amount, bb, ba) ==
    [id |-> c, homeless_id |-> h, amount |-> amount,
     balance_before |-> ba, balance_after |-> bb]

\* the record AllocationRepository.create writes
AllocRecord(c, h, amount, bb, ba) ==
    [id |-> c, homeless_id |-> h, amount |-> amount,
     balance_before |-> bb, balance_after |-> ba]

\* ------------------------------------------------------- create_transaction
\* the request body as the call record remembers it
Kept(c, r) == IF call[c].keep THEN r ELSE NoReq

\* an exception leaves the handler: the caller sees its code and payload
Fail(c, code, det) ==
    call' = [call EXCEPT ![c] = [@ EXCEPT !.pc = "done", !.result = code, !.details = det]]

\* the same for a request of kind k that is refused before it wrote anything:
\* its locals are gone with the stack frame
Rejected(c, k, r, code, det) ==
    call' = [call EXCEPT ![c] = [IdleCall EXCEPT !.pc = "done", !.kind = k,
                 !.keep = call[c].keep, !.request = r,
                 !.result = code, !.details = det]]

\* The body TransactionCreate(homeless_qr_code, store_qr_code, product_id,
\* amount > 0) arrives whole; where it is not remembered, store_qr_code and
\* product_id are chosen when the handler first reads them.
\* Step 1, first command: GET homeless:qr:{homeless_qr_code}
ResolveQr(c) ==
    /\ call[c].pc = "idle"
    /\ \E hq \in HomelessQRs, a \in 1..MaxAmount,
          sq \in IF call[c].keep THEN StoreQRs ELSE {None},
          p \in IF call[c].keep THEN ProductIds ELSE {None} :
         LET r == Kept(c, Request(hq, sq, p, a)) IN
         IF hQrIndex[hq] = None
         THEN Rejected(c, "tx", r, HOMELESS_NOT_FOUND, RefDetails(hq))
         ELSE call' = [call EXCEPT ![c] = [@ EXCEPT !.pc = "t_homeless", !.kind = "tx",
                           !.request = r, !.hqr = hq, !.amount = a,
                           !.hid = hQrIndex[hq]]]
    /\ UNCHANGED shared

\* the lock taken as soon as the beneficiary is resolved, before the remaining
\* checks, and not given back by a rejection
LoadHomeless_lockFirst(c) ==
    /\ call[c].pc = "t_homeless"
    /\ LET h == get_by_id(call[c].hid) IN
         IF h = VALIDATION_ERROR
         THEN /\ Rejected(c, "tx", call[c].request, VALIDATION_ERROR, NoDetails)
              /\ UNCHANGED lock
         ELSE IF h = None
         THEN /\ Rejected(c, "tx", call[c].request, HOMELESS_NOT_FOUND,
                          RefDetails(call[c].hqr))
              /\ UNCHANGED lock
         ELSE IF hStatus[h] # ACTIVE
         THEN /\ Rejected(c, "tx", call[c].request, HOMELESS_INACTIVE, RefDetails(h))
              /\ UNCHANGED lock
         ELSE /\ call' = [call EXCEPT ![c] = [@ EXCEPT !.pc = "t_store", !.homeless = h]]
              /\ lock' = [lock EXCEPT ![h] = acquire_lock(@, c, LockTimeout).lock]
    /\ UNCHANGED <<store, txs, allocs, expired, balance0, txIndex, outside>>

\* step 1, second command: HGETALL homeless:{id}, then the status check
LoadHomeless(c) ==
    /\ call[c].pc = "t_homeless"
    /\ LET h == get_by_id(call[c].hid) IN
         IF h = VALIDATION_ERROR
         THEN Rejected(c, "tx", call[c].request, VALIDATION_ERROR, NoDetails)
         ELSE IF h = None
         THEN Rejected(c, "tx", call[c].request, HOMELESS_NOT_FOUND,
                       RefDetails(call[c].hqr))
         ELSE IF hStatus[h] # ACTIVE
         THEN Rejected(c, "tx", call[c].request, HOMELESS_INACTIVE, RefDetails(h))
         ELSE call' = [call EXCEPT ![c] = [@ EXCEPT !.pc = "t_store", !.homeless = h]]
    /\ UNCHANGED shared

\* step 2: store_repo.get_by_qr_code (GET store:qr:{code}, HGETALL store:{id}),
\* then the status check.  An index entry is written once, after the hash it
\* names, and never removed: a GET that finds nothing ends the step, and one
\* that finds an id finds the same id at the time of the HGETALL.
LoadStore(c) ==
    /\ call[c].pc = "t_store"
    /\ \E sq \in IF call[c].keep THEN {call[c].request.sqr} ELSE StoreQRs,
          p \in IF call[c].keep THEN {call[c].request.pid} ELSE ProductIds :
         LET s == store_get_by_qr_code(sq) IN
         IF s = VALIDATION_ERROR
         THEN Rejected(c, "tx", call[c].request, VALIDATION_ERROR, NoDetails)
         ELSE IF s = None
         THEN Rejected(c, "tx", call[c].request, STORE_NOT_FOUND, RefDetails(sq))
         ELSE IF sStatus[s] # ACTIVE
         THEN Rejected(c, "tx", call[c].request, STORE_INACTIVE, RefDetails(s))
         ELSE call' = [call EXCEPT ![c] = [@ EXCEPT
                           !.pc = IF p = None THEN "t_lock" ELSE "t_product",
                           !.sqr = sq, !.sid = s, !.pid = p]]
    /\ UNCHANGED shared

\* a supplied product id that resolves to nothing treated like an inactive
\* product (if not product or product.status != ACTIVE)
ProductRefused_required(prod) == prod = None \/ pStatus[prod] # ACTIVE

\* if product and product.status != Status.ACTIVE
ProductRefused(prod) == prod # None /\ pStatus[prod] # ACTIVE

\* step 3, for a request that names a product: product_repo.get_by_id
\* (HGETALL product:{id})
LoadProduct(c) ==
    /\ call[c].pc = "t_product"
    /\ LET product == product_get_by_id(call[c].pid) IN
         IF product \in {VALIDATION_ERROR, VALUE_ERROR}
         THEN Rejected(c, "tx", call[c].request, product, NoDetails)
         ELSE IF ProductRefused(product)
         THEN Rejected(c, "tx", call[c].request, PRODUCT_INACTIVE,
                       RefDetails(call[c].pid))
         ELSE call' = [call EXCEPT ![c] = [@ EXCEPT !.pc = "t_lock", !.pid = None]]
    /\ UNCHANGED shared

\* the raise moved inside the try block: the finally block runs for it too
LockRefused_inTry(c, h) ==
    call' = [call EXCEPT ![c] = [@ EXCEPT !.pc = "t_release",
                 !.exc = TRANSACTION_LOCKED, !.details = RefDetails(h)]]

\* raise TransactionLockError(str(homeless.id)): the statement stands before
\* the try block, so neither the except clause nor the finally block runs
LockRefused(c, h) == Fail(c, TRANSACTION_LOCKED, RefDetails(h))

\* one lock key for all beneficiaries: refused while any lock is held
AcquireLock_global(c) ==
    /\ call[c].pc = "t_lock"
    /\ LET h == call[c].hid
           r == acquire_lock(lock[h], c, LockTimeout) IN
         IF r.ok /\ \A g \in Homeless : lock[g] = Absent
         THEN /\ lock' = [lock EXCEPT ![h] = r.lock]
              /\ call' = [call EXCEPT ![c] = [@ EXCEPT !.pc = "t_reread"]]
         ELSE /\ lock' = lock
              /\ LockRefused(c, h)
    /\ UNCHANGED <<store, txs, allocs, expired, balance0, txIndex, outside>>

\* step 4: acquire_lock(homeless.id, timeout=30)
AcquireLock(c) ==
    /\ call[c].pc = "t_lock"
    /\ LET h == call[c].hid
           r == acquire_lock(lock[h], c, LockTimeout) IN
         /\ lock' = [lock EXCEPT ![h] = r.lock]
         /\ IF r.ok
            THEN call' = [call EXCEPT ![c] = [@ EXCEPT !.pc = "t_reread"]]
            ELSE LockRefused(c, h)
    /\ UNCHANGED <<store, txs, allocs, expired, balance0, txIndex, outside>>

\* inside the try block: homeless = get_by_id(homeless.id), then the balance
\* check.  When get_by_id raises, `homeless` keeps the record of step 1.
Reread(c) ==
    /\ call[c].pc = "t_reread"
    /\ LET h == get_by_id(call[c].hid) IN
         IF h = VALIDATION_ERROR
         THEN call' = [call EXCEPT ![c] = [@ EXCEPT !.pc = "t_release",
                           !.exc = VALIDATION_ERROR]]
         ELSE IF h = None
         THEN call' = [call EXCEPT ![c] = [@ EXCEPT !.pc = "t_release", !.homeless = None,
                           !.exc = HOMELESS_NOT_FOUND,
                           !.details = RefDetails(call[c].hqr)]]
         ELSE LET bb == balance[h]
                  ba == bb - call[c].amount IN
              IF Insufficient(ba)
              THEN call' = [call EXCEPT ![c] = [@ EXCEPT !.pc = "t_release",
                                !.homeless = h, !.bb = bb, !.ba = ba,
                                !.exc = INSUFFICIENT_BALANCE,
                                !.details = BalanceDetails(bb, call[c].amount)]]
              ELSE call' = [call EXCEPT ![c] = [@ EXCEPT !.pc = "t_exists",
                                !.homeless = h, !.bb = bb, !.ba = ba]]
    /\ UNCHANGED shared

\* a Redis error raised by a write command: the except clause re-raises it
\* and control passes to the finally block.  The command the error is raised
\* for took effect or did not; the commands sent before it stay in effect.
Raise(c) ==
    call' = [call EXCEPT ![c] = [@ EXCEPT !.pc = "t_release", !.exc = INFRA_FAULT]]

\* step 5, update_balance, first command: EXISTS homeless:{id}; the method
\* returns False for a key that is absent and the caller ignores that
DebitExists(c) ==
    /\ call[c].pc = "t_exists"
    /\ call' = [call EXCEPT ![c] = [@ EXCEPT !.pc =
                    IF key_exists(call[c].homeless) THEN "t_debit" ELSE "t_income"]]
    /\ UNCHANGED shared

\* variant of step 5: the balance read under the lock is written back
Debit_stale(c) ==
    /\ call[c].pc = "t_debit"
    /\ \/ /\ balance' = hset_balance(call[c].homeless, call[c].bb)
          /\ hPartial' = hset_creates(call[c].homeless)
          /\ call' = [call EXCEPT ![c] = [@ EXCEPT !.pc = "t_stamp"]]
       \/ /\ Raise(c)
          /\ \/ UNCHANGED <<balance, hPartial>>
             \/ /\ balance' = hset_balance(call[c].homeless, call[c].bb)
                /\ hPartial' = hset_creates(call[c].homeless)
    /\ UNCHANGED <<hExists, hStatus, hName, hQrIndex, sStatus, income, sQrIndex, pStatus,
                   lock, txs, allocs, expired, balance0, txIndex, outside>>

\* step 5, second command: HSET homeless:{id} balance balance_after
Debit(c) ==
    /\ call[c].pc = "t_debit"
    /\ \/ /\ balance' = hset_balance(call[c].homeless, call[c].ba)
          /\ hPartial' = hset_creates(call[c].homeless)
          /\ call' = [call EXCEPT ![c] = [@ EXCEPT !.pc = "t_stamp"]]
       \/ /\ Raise(c)
          /\ \/ UNCHANGED <<balance, hPartial>>
             \/ /\ balance' = hset_balance(call[c].homeless, call[c].ba)
                /\ hPartial' = hset_creates(call[c].homeless)
    /\ UNCHANGED <<hExists, hStatus, hName, hQrIndex, sStatus, income, sQrIndex, pStatus,
                   lock, txs, allocs, expired, balance0, txIndex, outside>>

\* step 5, third command: HSET homeless:{id} updated_at
DebitStamp(c) ==
    /\ call[c].pc = "t_stamp"
    /\ \/ /\ hPartial' = hset_creates(call[c].homeless)
          /\ call' = [call EXCEPT ![c] = [@ EXCEPT !.pc = "t_income"]]
       \/ /\ Raise(c)
          /\ \/ UNCHANGED hPartial
             \/ hPartial' = hset_creates(call[c].homeless)
    /\ UNCHANGED <<hExists, balance, hStatus, hName, hQrIndex, sStatus, income, sQrIndex,
                   pStatus, lock, txs, allocs, expired, balance0, txIndex, outside>>

\* step 6 of the code: update_income(store.id, amount): EXISTS store:{id},
\* HINCRBY total_income, HSET updated_at.  No operation reads or writes the
\* income or removes a store hash in between; an error at the last command
\* leaves the income credited.
CreditStore(c) ==
    /\ call[c].pc = "t_income"
    /\ \/ /\ income' = update_income(call[c].sid, call[c].amount)
          /\ call' = [call EXCEPT ![c] = [@ EXCEPT !.pc = "t_ledger"]]
       \/ /\ Raise(c)
          /\ \/ UNCHANGED income
             \/ income' = update_income(call[c].sid, call[c].amount)
    /\ UNCHANGED <<hExists, hPartial, balance, hStatus, hName, hQrIndex, sStatus, sQrIndex,
                   pStatus, lock, txs, allocs, expired, balance0, txIndex, outside>>

\* the four commands of TransactionRepository.create for record tx written on
\* day d, in the order the code sends them: HSET of the record, ZADD to the
\* beneficiary's history, ZADD to the store's history, SADD to the day's bucket
LedgerCommands_indexFirst(tx, d) ==
    <<[idx |-> "homeless", of |-> tx.homeless_id, id |-> tx.id],
      [idx |-> "store", of |-> tx.store_id, id |-> tx.id],
      [idx |-> "daily", of |-> d, id |-> tx.id],
      [idx |-> "record", of |-> None, id |-> tx.id]>>

LedgerCommands(tx, d) ==
    <<[idx |-> "record", of |-> None, id |-> tx.id],
      [idx |-> "homeless", of |-> tx.homeless_id, id |-> tx.id],
      [idx |-> "store", of |-> tx.store_id, id |-> tx.id],
      [idx |-> "daily", of |-> d, id |-> tx.id]>>

\* where the call stands before each of the four commands
LedgerPcs == <<"t_ledger", "t_zhome", "t_zstore", "t_daily", "t_release">>

\* the record set and the index members once the command cmd of the record tx
\* took effect
LedgerAfter(tx, cmd) ==
    [txs |-> IF cmd.idx = "record" THEN txs \cup {tx} ELSE txs,
     index |-> IF cmd.idx = "record" THEN txIndex ELSE txIndex \cup {cmd}]

\* the dates `now` of create() can carry when its first command is sent: the
\* clock is read once, on entry (now = self._get_now()), so a create() that
\* was entered before midnight may still carry the day before
ClockRead(c) == {today} \cup ({call[c].day} \ {None})

\* step 7 of the code, transaction_repo.create(..., status=COMPLETED): its
\* i-th command, a round trip of its own.  A Redis error at the command
\* leaves it in effect or not; the commands sent before it stay in effect.
LedgerCommand(c, i) ==
    /\ call[c].pc = LedgerPcs[i]
    /\ \E d \in IF i = 1 THEN ClockRead(c) ELSE {call[c].day} :
         LET tx == TxRecord(c, call[c].homeless, call[c].hqr, call[c].sid, call[c].sqr,
                            call[c].amount, call[c].bb, call[c].ba)
             after == LedgerAfter(tx, LedgerCommands(tx, d)[i]) IN
         \/ /\ txs' = after.txs
            /\ txIndex' = after.index
            /\ call' = [call EXCEPT ![c] = [@ EXCEPT !.pc = LedgerPcs[i + 1], !.day = d]]
         \/ /\ Raise(c)
            /\ \/ UNCHANGED <<txs, txIndex>>
               \/ /\ txs' = after.txs
                  /\ txIndex' = after.index
    /\ UNCHANGED <<store, lock, allocs, expired, balance0, outside>>

\* HSET transaction:{id} of the whole record
WriteLedger(c) == LedgerCommand(c, 1)

\* ZADD homeless:{id}:transactions
IndexByHomeless(c) == LedgerCommand(c, 2)

\* ZADD store:{id}:transactions
IndexByStore(c) == LedgerCommand(c, 3)

\* SADD transactions:daily:{date of now}; create() returns
IndexByDay(c) == LedgerCommand(c, 4)

\* a finally block that puts the read balance back when the try block failed
ReleaseLock_compensating(c) ==
    /\ call[c].pc = "t_release"
    /\ call[c].homeless # None
    /\ lock' = [lock EXCEPT ![call[c].homeless] = release_lock(@)]
    /\ balance' = IF call[c].exc = None THEN balance
                  ELSE hset_balance(call[c].homeless, call[c].bb)
    /\ call' = [call EXCEPT ![c] = [@ EXCEPT !.pc = "done",
                     !.result = IF call[c].exc = None THEN OK ELSE call[c].exc]]
    /\ UNCHANGED <<hExists, hPartial, hStatus, hName, hQrIndex, sStatus, income, sQrIndex,
                   pStatus, txs, allocs, expired, balance0, txIndex, outside>>

\* finally: release_lock(homeless.id).  `homeless` was rebound by the re-read;
\* when it is None the attribute access raises and the DEL is never sent.
ReleaseLock(c) ==
    /\ call[c].pc = "t_release"
    /\ IF call[c].homeless = None
       THEN /\ call' = [call EXCEPT ![c] = [@ EXCEPT !.pc = "done",
                             !.result = ATTRIBUTE_ERROR, !.details = NoDetails]]
            /\ UNCHANGED lock
       ELSE /\ lock' = [lock EXCEPT ![call[c].homeless] = release_lock(@)]
            /\ call' = [call EXCEPT ![c] = [@ EXCEPT !.pc = "done",
                             !.result = IF call[c].exc = None THEN OK ELSE call[c].exc]]
    /\ UNCHANGED <<store, txs, allocs, expired, balance0, txIndex, outside>>

\* -------------------------------------------------------- create_allocation
\* SystemConfigRepository.DEFAULT_CONFIGS: the value get() answers for a key
\* that holds no hash
DEFAULT_CONFIGS ==
    [k \in ConfigKeys |-> IF k = "max_allocation_limit" THEN "1000" ELSE "10000"]

\* SystemConfigRepository.get_int (one HGETALL config:{key}): int() of the
\* stored value, of the default value when the key holds no hash; the
\* fallback when int() raises ValueError
get_int(config_key, default) ==
    LET value == IF config[config_key] = None THEN DEFAULT_CONFIGS[config_key]
                 ELSE config[config_key]
    IN  IF value \in Numerals THEN int(value) ELSE default

\* the stored setting not looked at: the fallback value
max_allocation_limit_fallback == 1000

\* config_repo.get_int("max_allocation_limit", 1000)
max_allocation_limit == get_int("max_allocation_limit", 1000)

\* the stored setting not looked at: the fallback value
max_balance_limit_fallback == 10000

\* config_repo.get_int("max_balance_limit", 10000)
max_balance_limit == get_int("max_balance_limit", 10000)

\* PATCH /config/{config_key}: config_repo.set, one HSET of the whole hash
\* with the value of the body; the handler answers 200 with what it wrote
UpdateConfig(k, v) ==
    /\ config' = [config EXCEPT ![k] = v]
    /\ UNCHANGED <<store, lock, txs, allocs, call, expired, balance0, txIndex,
                   hQrCode, today, users, idNumbers, listing, sData, pData>>

\* the allocation limit tested before the beneficiary is looked up
AllocRead_limitFirst(c) ==
    /\ call[c].pc = "idle"
    /\ \E hid \in Homeless, a \in 1..MaxAmount :
         LET h == get_by_id(hid)
             r == Kept(c, AllocRequest(hid, a))
         IN
         IF a > max_allocation_limit
         THEN Rejected(c, "alloc", r, ALLOCATION_LIMIT_EXCEEDED,
                       AllocLimitDetails(max_allocation_limit, a))
         ELSE IF h = VALIDATION_ERROR
         THEN Rejected(c, "alloc", r, VALIDATION_ERROR, NoDetails)
         ELSE IF h = None THEN Rejected(c, "alloc", r, ALLOC_NOT_FOUND, NoDetails)
         ELSE IF hStatus[h] # ACTIVE THEN Rejected(c, "alloc", r, ALLOC_INACTIVE, NoDetails)
         ELSE call' = [call EXCEPT ![c] = [@ EXCEPT !.pc = "a_limit", !.kind = "alloc",
                           !.request = r,
                           !.hid = hid, !.amount = a, !.homeless = h,
                           !.bb = balance[h]]]
    /\ UNCHANGED shared

\* a request AllocationCreate(homeless_id, amount > 0) arrives:
\* homeless_repo.get_by_id (one HGETALL) and the status check; the balance of
\* the record read here is the one balance_after is computed from
AllocRead(c) ==
    /\ call[c].pc = "idle"
    /\ \E hid \in Homeless, a \in 1..MaxAmount :
         LET h == get_by_id(hid)
             r == Kept(c, AllocRequest(hid, a))
         IN
         IF h = VALIDATION_ERROR
         THEN Rejected(c, "alloc", r, VALIDATION_ERROR, NoDetails)
         ELSE IF h = None THEN Rejected(c, "alloc", r, ALLOC_NOT_FOUND, NoDetails)
         ELSE IF hStatus[h] # ACTIVE THEN Rejected(c, "alloc", r, ALLOC_INACTIVE, NoDetails)
         ELSE call' = [call EXCEPT ![c] = [@ EXCEPT !.pc = "a_limit", !.kind = "alloc",
                           !.request = r,
                           !.hid = hid, !.amount = a, !.homeless = h,
                           !.bb = balance[h]]]
    /\ UNCHANGED shared

\* max_allocation_limit = config_repo.get_int("max_allocation_limit", 1000)
AllocLimitRead(c) ==
    /\ call[c].pc = "a_limit"
    /\ call' = [call EXCEPT ![c] = [@ EXCEPT !.pc = "a_ceiling",
                     !.limit = max_allocation_limit]]
    /\ UNCHANGED shared

\* max_balance_limit = config_repo.get_int("max_balance_limit", 10000), then
\* the two limit checks, the allocation limit first; neither limit is read
\* again after them
BalanceLimitRead(c) ==
    /\ call[c].pc = "a_ceiling"
    /\ LET a == call[c].amount
           bb == call[c].bb
       IN
       IF a > call[c].limit
       THEN Rejected(c, "alloc", call[c].request, ALLOCATION_LIMIT_EXCEEDED,
                     AllocLimitDetails(call[c].limit, a))
       ELSE IF bb + a > max_balance_limit
       THEN Rejected(c, "alloc", call[c].request, BALANCE_LIMIT_EXCEEDED,
                     BalanceLimitDetails(bb, a, max_balance_limit))
       ELSE call' = [call EXCEPT ![c] = [@ EXCEPT !.pc = "a_record", !.ba = bb + a,
                         !.limit = -1]]
    /\ UNCHANGED shared

\* allocation_repo.create(...): the record is written before the balance
\* (HSET of the record, then its two index commands, which nothing here reads)
AllocRecordWrite(c) ==
    /\ call[c].pc = "a_record"
    /\ allocs' = allocs \cup {AllocRecord(c, call[c].hid, call[c].amount,
                                          call[c].bb, call[c].ba)}
    /\ call' = [call EXCEPT ![c] = [@ EXCEPT !.pc = "a_exists"]]
    /\ UNCHANGED <<store, lock, txs, expired, balance0, txIndex, outside>>

\* update_balance, first command: EXISTS homeless:{id}; the route ignores the
\* False of an absent key and answers 201
AllocExists(c) ==
    /\ call[c].pc = "a_exists"
    /\ call' = [call EXCEPT ![c] =
                  IF key_exists(call[c].hid) THEN [@ EXCEPT !.pc = "a_balance"]
                  ELSE [@ EXCEPT !.pc = "done", !.result = OK]]
    /\ UNCHANGED shared

\* the balance write refused while a lock key exists for the beneficiary
AllocUpdateBalance_underLock(c) ==
    /\ call[c].pc = "a_balance"
    /\ IF lock[call[c].hid] # Absent
       THEN /\ Fail(c, TRANSACTION_LOCKED, RefDetails(call[c].hid))
            /\ UNCHANGED <<balance, hPartial>>
       ELSE /\ balance' = hset_balance(call[c].hid, call[c].ba)
            /\ hPartial' = hset_creates(call[c].hid)
            /\ call' = [call EXCEPT ![c] = [@ EXCEPT !.pc = "a_stamp"]]
    /\ UNCHANGED <<hExists, hStatus, hName, hQrIndex, sStatus, income, sQrIndex, pStatus,
                   lock, txs, allocs, expired, balance0, txIndex, outside>>

\* the amount added to the stored balance instead of the checked sum written
AllocUpdateBalance_increment(c) ==
    /\ call[c].pc = "a_balance"
    /\ balance' = hset_balance(call[c].hid, balance[call[c].hid] + call[c].amount)
    /\ hPartial' = hset_creates(call[c].hid)
    /\ call' = [call EXCEPT ![c] = [@ EXCEPT !.pc = "a_stamp"]]
    /\ UNCHANGED <<hExists, hStatus, hName, hQrIndex, sStatus, income, sQrIndex, pStatus,
                   lock, txs, allocs, expired, balance0, txIndex, outside>>

\* update_balance, second command: HSET homeless:{id} balance balance_after;
\* no lock is taken or looked at
AllocUpdateBalance(c) ==
    /\ call[c].pc = "a_balance"
    /\ balance' = hset_balance(call[c].hid, call[c].ba)
    /\ hPartial' = hset_creates(call[c].hid)
    /\ call' = [call EXCEPT ![c] = [@ EXCEPT !.pc = "a_stamp"]]
    /\ UNCHANGED <<hExists, hStatus, hName, hQrIndex, sStatus, income, sQrIndex, pStatus,
                   lock, txs, allocs, expired, balance0, txIndex, outside>>

\* update_balance, third command: HSET homeless:{id} updated_at; the route
\* answers 201
AllocStamp(c) ==
    /\ call[c].pc = "a_stamp"
    /\ hPartial' = hset_creates(call[c].hid)
    /\ call' = [call EXCEPT ![c] = [@ EXCEPT !.pc = "done", !.result = OK]]
    /\ UNCHANGED <<hExists, balance, hStatus, hName, hQrIndex, sStatus, income, sQrIndex,
                   pStatus, lock, txs, allocs, expired, balance0, txIndex, outside>>

\* ------------------------------------------------- beneficiary management
\* the handler's own get_by_id for a request of kind k on beneficiary h with
\* the new field value v: 404 when the record is absent
ManageRead(c, k, h, v) ==
    LET found == get_by_id(h) IN
    IF found = VALIDATION_ERROR THEN Rejected(c, k, call[c].request, VALIDATION_ERROR, NoDetails)
    ELSE IF found = None THEN Rejected(c, k, call[c].request, HTTP_NOT_FOUND, NoDetails)
    ELSE call' = [call EXCEPT ![c] = [@ EXCEPT !.pc = "u_read", !.kind = k, !.hid = h,
                      !.arg = v]]

\* what the handler makes of update() returning None: the PATCH handler reads
\* updated.id; the DELETE handler ignores the result of delete()
Unfound(c) ==
    IF call[c].kind = "delete"
    THEN Fail(c, OK, NoDetails)
    ELSE Fail(c, ATTRIBUTE_ERROR, NoDetails)

\* DELETE /homeless/{id}: get_by_id, then homeless_repo.delete, which is
\* update(id, {"status": "inactive"})
DeleteHomeless(c) ==
    /\ call[c].pc = "idle"
    /\ \E h \in Homeless : ManageRead(c, "delete", h, INACTIVE)
    /\ UNCHANGED shared

\* PATCH /homeless/{id} with status in the body, a Status value or null:
\* get_by_id, then homeless_repo.update(id, {"status": st})
UpdateHomeless(c) ==
    /\ call[c].pc = "idle"
    /\ \E h \in Homeless, st \in Status \cup {None} : ManageRead(c, "update", h, st)
    /\ UNCHANGED shared

\* PATCH /homeless/{id} with id_number in the body, a number or null
UpdateIdNumber(c) ==
    /\ call[c].pc = "idle"
    /\ \E h \in Homeless, n \in IdNumbers \cup {None} :
         ManageRead(c, "update_idn", h, n)
    /\ UNCHANGED shared

\* PATCH /homeless/{id} with name in the body, a name or null
UpdateName(c) ==
    /\ call[c].pc = "idle"
    /\ \E h \in Homeless, nm \in Names \cup {None} :
         ManageRead(c, "update_name", h, nm)
    /\ UNCHANGED shared

\* HomelessPersonRepository.update, first command: get_by_id; None is
\* returned for a record that is absent
UpdateRead(c) ==
    /\ call[c].pc = "u_read"
    /\ LET found == get_by_id(call[c].hid) IN
         IF found = VALIDATION_ERROR THEN Fail(c, VALIDATION_ERROR, NoDetails)
         ELSE IF found = None THEN Unfound(c)
         ELSE call' = [call EXCEPT ![c] = [@ EXCEPT !.pc = "u_hset"]]
    /\ UNCHANGED shared

\* a delete that removes the hash and the QR index entry
UpdateSet_hard(c) ==
    /\ call[c].pc = "u_hset"
    /\ LET h == call[c].hid
           v == hset_value(call[c].arg) IN
         /\ IF call[c].kind = "delete"
            THEN /\ hExists' = [hExists EXCEPT ![h] = FALSE]
                 /\ hQrIndex' = [hQrIndex EXCEPT ![hQrCode[h]] = None]
                 /\ UNCHANGED <<hStatus, hName, idNumbers, hPartial>>
            ELSE /\ hStatus' = IF call[c].kind = "update"
                               THEN [hStatus EXCEPT ![h] = v] ELSE hStatus
                 /\ idNumbers' = IF call[c].kind = "update_idn"
                                 THEN [idNumbers EXCEPT !.field[h] = v]
                                 ELSE idNumbers
                 /\ hName' = IF call[c].kind = "update_name"
                             THEN [hName EXCEPT ![h] = v] ELSE hName
                 /\ hPartial' = hset_creates(h)
                 /\ UNCHANGED <<hExists, hQrIndex>>
         /\ call' = [call EXCEPT ![c] = [@ EXCEPT !.pc = "u_stamp"]]
    /\ UNCHANGED <<balance, sStatus, income, sQrIndex, pStatus, lock, txs,
                   allocs, expired, balance0, txIndex, catalog, hQrCode, today, users, listing>>

\* a delete that also removes the beneficiary's ledger records
UpdateSet_cascading(c) ==
    /\ call[c].pc = "u_hset"
    /\ LET h == call[c].hid
           v == hset_value(call[c].arg) IN
         /\ hStatus' = IF call[c].kind \in {"update", "delete"}
                       THEN [hStatus EXCEPT ![h] = v] ELSE hStatus
         /\ idNumbers' = IF call[c].kind = "update_idn"
                         THEN [idNumbers EXCEPT !.field[h] = v] ELSE idNumbers
         /\ hName' = IF call[c].kind = "update_name"
                     THEN [hName EXCEPT ![h] = v] ELSE hName
         /\ hPartial' = hset_creates(h)
         /\ txs' = IF call[c].kind = "delete" THEN {t \in txs : t.homeless_id # h}
                   ELSE txs
         /\ allocs' = IF call[c].kind = "delete" THEN {a \in allocs : a.homeless_id # h}
                      ELSE allocs
         /\ call' = [call EXCEPT ![c] = [@ EXCEPT !.pc = "u_stamp"]]
    /\ UNCHANGED <<hExists, balance, hQrIndex, sStatus, income, sQrIndex, pStatus,
                   lock, expired, balance0, txIndex, catalog, hQrCode, today, users, listing>>

\* an update that writes the whole record back as it was seeded
UpdateSet_wholeRecord(c) ==
    /\ call[c].pc = "u_hset"
    /\ LET h == call[c].hid
           v == hset_value(call[c].arg) IN
         /\ hStatus' = IF call[c].kind \in {"update", "delete"}
                       THEN [hStatus EXCEPT ![h] = v] ELSE hStatus
         /\ idNumbers' = IF call[c].kind = "update_idn"
                         THEN [idNumbers EXCEPT !.field[h] = v] ELSE idNumbers
         /\ hName' = IF call[c].kind = "update_name"
                     THEN [hName EXCEPT ![h] = v] ELSE hName
         /\ hPartial' = hset_creates(h)
         /\ balance' = IF call[c].kind = "update"
                       THEN [balance EXCEPT ![h] = balance0[h]] ELSE balance
         /\ call' = [call EXCEPT ![c] = [@ EXCEPT !.pc = "u_stamp"]]
    /\ UNCHANGED <<hExists, hQrIndex, sStatus, income, sQrIndex, pStatus,
                   lock, txs, allocs, expired, balance0, txIndex, catalog, hQrCode, today,
                   users, listing>>

\* update, second command: HSET homeless:{id} <field> <value> for the one
\* field of the body (status, id_number or name), the empty string for a null
\* value; no other field and no index is written
UpdateSet(c) ==
    /\ call[c].pc = "u_hset"
    /\ LET h == call[c].hid
           v == hset_value(call[c].arg) IN
         /\ hStatus' = IF call[c].kind \in {"update", "delete"}
                       THEN [hStatus EXCEPT ![h] = v] ELSE hStatus
         /\ idNumbers' = IF call[c].kind = "update_idn"
                         THEN [idNumbers EXCEPT !.field[h] = v] ELSE idNumbers
         /\ hName' = IF call[c].kind = "update_name"
                     THEN [hName EXCEPT ![h] = v] ELSE hName
         /\ hPartial' = hset_creates(h)
         /\ call' = [call EXCEPT ![c] = [@ EXCEPT !.pc = "u_stamp"]]
    /\ UNCHANGED <<hExists, balance, hQrIndex, sStatus, income, sQrIndex, pStatus,
                   lock, txs, allocs, expired, balance0, txIndex, catalog, hQrCode, today,
                   users, listing>>

\* update, third command: HSET homeless:{id} updated_at
UpdateStamp(c) ==
    /\ call[c].pc = "u_stamp"
    /\ hPartial' = hset_creates(call[c].hid)
    /\ call' = [call EXCEPT ![c] = [@ EXCEPT !.pc = "u_final"]]
    /\ UNCHANGED <<hExists, balance, hStatus, hName, hQrIndex, sStatus, income, sQrIndex,
                   pStatus, lock, txs, allocs, expired, balance0, txIndex, outside>>

\* update, last command: return self.get_by_id(homeless_id); then the handler
\* builds its answer
UpdateFinal(c) ==
    /\ call[c].pc = "u_final"
    /\ LET found == get_by_id(call[c].hid) IN
         IF found = VALIDATION_ERROR THEN Fail(c, VALIDATION_ERROR, NoDetails)
         ELSE IF found = None THEN Unfound(c)
         ELSE Fail(c, OK, NoDetails)
    /\ UNCHANGED shared

\* ------------------------------------------------------- store management
\* the bodies of PATCH /stores/{id} with one field set, to a value or to null
StoreBodies ==
    [field : {"status"}, value : Status \cup {None}]
        \cup [field : {"name"}, value : Names \cup {None}]
        \cup [field : {"association_id"}, value : StoreAssociations \cup {None}]

\* PATCH /stores/{id}: the handler's get_by_id, 404 when the store is absent
UpdateStore(c) ==
    /\ call[c].pc = "idle"
    /\ \E s \in Stores, b \in StoreBodies :
         LET found == store_get_by_id(s) IN
         IF found = VALIDATION_ERROR
         THEN Rejected(c, "store_update", call[c].request, VALIDATION_ERROR, NoDetails)
         ELSE IF found = None
         THEN Rejected(c, "store_update", call[c].request, HTTP_NOT_FOUND, NoDetails)
         ELSE call' = [call EXCEPT ![c] = [@ EXCEPT !.pc = "su_read",
                           !.kind = "store_update", !.sid = s,
                           !.field = b.field, !.arg = b.value]]
    /\ UNCHANGED shared

\* StoreRepository.update, first command: get_by_id (no operation removes a
\* store hash)
StoreUpdateRead(c) ==
    /\ call[c].pc = "su_read"
    /\ IF store_get_by_id(call[c].sid) = VALIDATION_ERROR
       THEN Fail(c, VALIDATION_ERROR, NoDetails)
       ELSE call' = [call EXCEPT ![c] = [@ EXCEPT !.pc = "su_hset"]]
    /\ UNCHANGED shared

\* StoreRepository.update, second command: HSET store:{id} <field> <value>
\* for the one field of the body, the empty string for a null value
StoreUpdateSet(c) ==
    /\ call[c].pc = "su_hset"
    /\ LET s == call[c].sid
           v == hset_value(call[c].arg) IN
         /\ sStatus' = IF call[c].field = "status"
                       THEN [sStatus EXCEPT ![s] = v] ELSE sStatus
         /\ sData' = IF call[c].field = "status" THEN sData
                     ELSE [sData EXCEPT ![s][call[c].field] = v]
    /\ call' = [call EXCEPT ![c] = [@ EXCEPT !.pc = "su_stamp"]]
    /\ UNCHANGED <<hExists, hPartial, balance, hStatus, hName, hQrIndex, income, sQrIndex,
                   pStatus, lock, txs, allocs, expired, balance0, txIndex,
                   hQrCode, today, users, idNumbers, listing, pData, config>>

\* StoreRepository.update, third command: HSET store:{id} updated_at
StoreUpdateStamp(c) ==
    /\ call[c].pc = "su_stamp"
    /\ call' = [call EXCEPT ![c] = [@ EXCEPT !.pc = "su_final"]]
    /\ UNCHANGED shared

\* StoreRepository.update, last command: return self.get_by_id(store_id);
\* then the handler builds its answer
StoreUpdateFinal(c) ==
    /\ call[c].pc = "su_final"
    /\ IF store_get_by_id(call[c].sid) = VALIDATION_ERROR
       THEN Fail(c, VALIDATION_ERROR, NoDetails)
       ELSE Fail(c, OK, NoDetails)
    /\ UNCHANGED shared

\* POST /stores with a name and an association_id or none: store_id = uuid4(),
\* then StoreRepository.create, first command: HSET of the whole record under
\* the new id, with a generated qr_code, total_income 0 and status active.
\* One store is created at most.
CreateStore(c) ==
    /\ call[c].pc = "idle"
    /\ ~sData[NewStore].present
    /\ \E q \in GeneratedStoreQRs, nm \in Names, a \in StoreAssociations \cup {None} :
         /\ sStatus' = [sStatus EXCEPT ![NewStore] = ACTIVE]
         /\ income' = [income EXCEPT ![NewStore] = 0]
         /\ sData' = [sData EXCEPT ![NewStore] = StoreFields(nm, a)]
         /\ call' = [call EXCEPT ![c] = [@ EXCEPT !.pc = "sc_index",
                          !.kind = "store_create", !.sid = NewStore, !.sqr = q]]
    /\ UNCHANGED <<hExists, hPartial, balance, hStatus, hName, hQrIndex, sQrIndex,
                   pStatus, lock, txs, allocs, expired, balance0, txIndex,
                   hQrCode, today, users, idNumbers, listing, pData, config>>

\* create, second command: SET store:qr:{qr_code} => id; then SADD store:all
\* and, for a body with an association, SADD association:{id}:stores (keys
\* that are not part of the state); 201
CreateStoreIndex(c) ==
    /\ call[c].pc = "sc_index"
    /\ sQrIndex' = [sQrIndex EXCEPT ![call[c].sqr] = call[c].sid]
    /\ call' = [call EXCEPT ![c] = [@ EXCEPT !.pc = "done", !.result = OK]]
    /\ UNCHANGED <<hExists, hPartial, balance, hStatus, hName, hQrIndex, sStatus, income,
                   pStatus, lock, txs, allocs, expired, balance0, txIndex, outside>>

\* ----------------------------------------------------- product management
\* the bodies of PATCH /products/{id} with one field set, to a value or to null
ProductBodies ==
    [field : {"status"}, value : Status \cup {None}]
        \cup [field : {"name"}, value : Names \cup {None}]
        \cup [field : {"points"}, value : Points \cup {None}]
        \cup [field : {"category"}, value : Categories \cup {None}]

\* the handler's own get_by_id for a request of kind k on product p with the
\* body b: 404 for an id that is not stored
ProductRead(c, k, p, b) ==
    LET product == product_get_by_id(p) IN
    IF product \in {VALIDATION_ERROR, VALUE_ERROR}
    THEN Rejected(c, k, call[c].request, product, NoDetails)
    ELSE IF product = None
    THEN Rejected(c, k, call[c].request, HTTP_NOT_FOUND, NoDetails)
    ELSE call' = [call EXCEPT ![c] = [@ EXCEPT !.pc = "pu_read", !.kind = k, !.pid = p,
                      !.field = b.field, !.arg = b.value]]

\* PATCH /products/{id}
UpdateProduct(c) ==
    /\ call[c].pc = "idle"
    /\ \E p \in Products, b \in ProductBodies : ProductRead(c, "product_update", p, b)
    /\ UNCHANGED shared

\* DELETE /products/{id}: get_by_id, then ProductRepository.delete, which is
\* update(id, {"status": "inactive"})
DeleteProduct(c) ==
    /\ call[c].pc = "idle"
    /\ \E p \in Products :
         ProductRead(c, "product_delete", p, [field |-> "status", value |-> INACTIVE])
    /\ UNCHANGED shared

\* ProductRepository.update, first command: get_by_id (no operation removes a
\* product hash)
ProductUpdateRead(c) ==
    /\ call[c].pc = "pu_read"
    /\ LET product == product_get_by_id(call[c].pid) IN
       IF product \in {VALIDATION_ERROR, VALUE_ERROR}
       THEN Fail(c, product, NoDetails)
       ELSE call' = [call EXCEPT ![c] = [@ EXCEPT !.pc = "pu_hset"]]
    /\ UNCHANGED shared

\* ProductRepository.update, second command: HSET product:{id} <field> <value>
\* for the one field of the body, the empty string for a null value
ProductUpdateSet(c) ==
    /\ call[c].pc = "pu_hset"
    /\ LET p == call[c].pid
           v == hset_value(call[c].arg) IN
         /\ pStatus' = IF call[c].field = "status"
                       THEN [pStatus EXCEPT ![p] = v] ELSE pStatus
         /\ pData' = IF call[c].field = "status" THEN pData
                     ELSE [pData EXCEPT ![p][call[c].field] = v]
    /\ call' = [call EXCEPT ![c] = [@ EXCEPT !.pc = "pu_stamp"]]
    /\ UNCHANGED <<hExists, hPartial, balance, hStatus, hName, hQrIndex, sStatus, income,
                   sQrIndex, lock, txs, allocs, expired, balance0, txIndex,
                   hQrCode, today, users, idNumbers, listing, sData, config>>

\* ProductRepository.update, third command: HSET product:{id} updated_at
ProductUpdateStamp(c) ==
    /\ call[c].pc = "pu_stamp"
    /\ call' = [call EXCEPT ![c] = [@ EXCEPT !.pc = "pu_final"]]
    /\ UNCHANGED shared

\* ProductRepository.update, last command: return self.get_by_id(product_id);
\* the PATCH handler builds its answer from the record, the DELETE handler
\* answers without it
ProductUpdateFinal(c) ==
    /\ call[c].pc = "pu_final"
    /\ LET product == product_get_by_id(call[c].pid) IN
       IF product \in {VALIDATION_ERROR, VALUE_ERROR}
       THEN Fail(c, product, NoDetails)
       ELSE Fail(c, OK, NoDetails)
    /\ UNCHANGED shared

\* POST /stores/{store_id}/products: store_repo.get_by_id, 404 when the store
\* is absent.  One product is created at most.
CreateProduct(c) ==
    /\ call[c].pc = "idle"
    /\ ~pData[NewProduct].present
    /\ \A d \in Calls : call[d].pc # "pc_hset"
    /\ \E s \in Stores :
         LET found == store_get_by_id(s) IN
         IF found = VALIDATION_ERROR
         THEN Rejected(c, "product_create", call[c].request, VALIDATION_ERROR, NoDetails)
         ELSE IF found = None
         THEN Rejected(c, "product_create", call[c].request, HTTP_NOT_FOUND, NoDetails)
         ELSE call' = [call EXCEPT ![c] = [@ EXCEPT !.pc = "pc_hset",
                           !.kind = "product_create", !.sid = s]]
    /\ UNCHANGED shared

\* product_id = uuid4(), then ProductRepository.create: HSET of the whole
\* record under the new id with status active; then SADD store:{id}:products
\* (a key that is not part of the state); 201
CreateProductWrite(c) ==
    /\ call[c].pc = "pc_hset"
    /\ \E nm \in Names, pt \in Points, cat \in Categories :
         /\ pStatus' = [pStatus EXCEPT ![NewProduct] = ACTIVE]
         /\ pData' = [pData EXCEPT ![NewProduct] = ProductFields(nm, pt, cat)]
    /\ call' = [call EXCEPT ![c] = [@ EXCEPT !.pc = "done", !.pid = NewProduct,
                     !.result = OK]]
    /\ UNCHANGED <<hExists, hPartial, balance, hStatus, hName, hQrIndex, sStatus, income,
                   sQrIndex, lock, txs, allocs, expired, balance0, txIndex,
                   hQrCode, today, users, idNumbers, listing, sData, config>>

\* the codes handed out so far: stored on a record or chosen by a request
CodesInUse ==
    {hQrCode[g] : g \in Homeless} \cup {call[d].arg : d \in Calls}
        \cup {call[d].hqr : d \in {e \in Calls : call[e].kind = "create"}}

\* reissue_qr_code, first command: get_by_id; the record read carries the
\* current qr_code
ReissueRead(c) ==
    /\ call[c].pc = "idle"
    /\ \E h \in Homeless :
         LET found == get_by_id(h) IN
         IF found = VALIDATION_ERROR
         THEN Rejected(c, "reissue", call[c].request, VALIDATION_ERROR, NoDetails)
         ELSE IF found = None
         THEN Rejected(c, "reissue", call[c].request, HTTP_NOT_FOUND, NoDetails)
         ELSE call' = [call EXCEPT ![c] = [@ EXCEPT !.pc = "r_delete", !.kind = "reissue",
                           !.hid = h, !.homeless = h, !.hqr = hQrCode[h],
                           !.beside = \E d \in Calls \ {c} :
                                          /\ call[d].kind = "reissue" /\ call[d].hid = h
                                          /\ call[d].pc \notin {"idle", "done"}]]
    /\ UNCHANGED shared

\* the old index entry left in place
ReissueDropIndex_kept(c) ==
    /\ call[c].pc = "r_delete"
    /\ \E q \in GeneratedQRs \ CodesInUse :
         call' = [call EXCEPT ![c] = [@ EXCEPT !.pc = "r_hset", !.arg = q]]
    /\ UNCHANGED shared

\* DEL homeless:qr:{old code}, then generate_homeless_qr_code(): a code that
\* was never generated before
ReissueDropIndex(c) ==
    /\ call[c].pc = "r_delete"
    /\ \E q \in GeneratedQRs \ CodesInUse :
         call' = [call EXCEPT ![c] = [@ EXCEPT !.pc = "r_hset", !.arg = q]]
    /\ hQrIndex' = [hQrIndex EXCEPT ![call[c].hqr] = None]
    /\ UNCHANGED <<hExists, hPartial, balance, hStatus, hName, sStatus, income, sQrIndex,
                   pStatus, lock, txs, allocs, expired, balance0, txIndex, outside>>

\* HSET homeless:{id} qr_code
ReissueSetCode(c) ==
    /\ call[c].pc = "r_hset"
    /\ hQrCode' = [hQrCode EXCEPT ![call[c].hid] = call[c].arg]
    /\ hPartial' = hset_creates(call[c].hid)
    /\ call' = [call EXCEPT ![c] = [@ EXCEPT !.pc = "r_stamp"]]
    /\ UNCHANGED <<hExists, balance, hStatus, hName, hQrIndex, sStatus, income, sQrIndex,
                   pStatus, lock, txs, allocs, expired, balance0, txIndex, catalog, today,
                   users, idNumbers, listing>>

\* HSET homeless:{id} updated_at
ReissueStamp(c) ==
    /\ call[c].pc = "r_stamp"
    /\ hPartial' = hset_creates(call[c].hid)
    /\ call' = [call EXCEPT ![c] = [@ EXCEPT !.pc = "r_index"]]
    /\ UNCHANGED <<hExists, balance, hStatus, hName, hQrIndex, sStatus, income, sQrIndex,
                   pStatus, lock, txs, allocs, expired, balance0, txIndex, outside>>

\* SET homeless:qr:{new code} => id; the handler returns the new code
ReissueSetIndex(c) ==
    /\ call[c].pc = "r_index"
    /\ hQrIndex' = [hQrIndex EXCEPT ![call[c].arg] = call[c].hid]
    /\ call' = [call EXCEPT ![c] = [@ EXCEPT !.pc = "done", !.result = OK]]
    /\ UNCHANGED <<hExists, hPartial, balance, hStatus, hName, sStatus, income, sQrIndex,
                   pStatus, lock, txs, allocs, expired, balance0, txIndex, outside>>

\* midnight on the server clock.  A create() that was entered and has not sent
\* its first command has read the clock before midnight or will read it
\* after: the day before stays a date its `now` can carry.
DayPasses ==
    /\ today = "d1"
    /\ today' = "d2"
    /\ call' = [c \in Calls |-> IF call[c].pc = "t_ledger"
                                 THEN [call[c] EXCEPT !.day = today] ELSE call[c]]
    /\ UNCHANGED <<store, lock, txs, allocs, expired, balance0, txIndex, catalog,
                   hQrCode, users, idNumbers, listing>>

\* ------------------------------------------------------ national id numbers
\* HomelessPersonRepository.get_by_id_number: GET of the index, then get_by_id
get_by_id_number(n) ==
    IF idNumbers.index[n] = None THEN None ELSE get_by_id(idNumbers.index[n])

\* homeless_id = uuid4() of the route: the request c creates the beneficiary
\* of its own number
NewHomeless(c) == IF c = "c1" THEN "h1" ELSE "h2"

\* POST /homeless, get_by_id_number, first command:
\* GET homeless:id_number:{n}
CreateHomeless(c) ==
    /\ call[c].pc = "idle"
    /\ \E n \in IdNumbers :
         call' = [call EXCEPT ![c] = [@ EXCEPT !.kind = "create", !.arg = n,
                      !.pc = IF idNumbers.index[n] = None THEN "k_hset" ELSE "k_load",
                      !.homeless = idNumbers.index[n]]]
    /\ UNCHANGED shared

\* get_by_id_number, second command: HGETALL homeless:{id}; 409 when a
\* beneficiary is found
CreateLoad(c) ==
    /\ call[c].pc = "k_load"
    /\ LET found == get_by_id(call[c].homeless) IN
         IF found = VALIDATION_ERROR
         THEN Rejected(c, "create", call[c].request, VALIDATION_ERROR, NoDetails)
         ELSE IF found # None
         THEN Rejected(c, "create", call[c].request, HTTP_CONFLICT, NoDetails)
         ELSE call' = [call EXCEPT ![c] = [@ EXCEPT !.pc = "k_hset", !.homeless = None]]
    /\ UNCHANGED shared

\* HomelessPersonRepository.create, first command: HSET of the whole record
\* under the new id, with a generated qr_code, balance 0 and status active
CreateWrite(c) ==
    /\ call[c].pc = "k_hset"
    /\ LET h == NewHomeless(c) IN
       \E q \in GeneratedQRs \ CodesInUse, nm \in Names :
         /\ hExists' = [hExists EXCEPT ![h] = TRUE]
         /\ hPartial' = hPartial \ {h}
         /\ balance' = [balance EXCEPT ![h] = 0]
         /\ hStatus' = [hStatus EXCEPT ![h] = ACTIVE]
         /\ hName' = [hName EXCEPT ![h] = nm]
         /\ hQrCode' = [hQrCode EXCEPT ![h] = q]
         /\ idNumbers' = [idNumbers EXCEPT !.field[h] = call[c].arg]
         /\ call' = [call EXCEPT ![c] = [@ EXCEPT !.pc = "k_qr", !.hid = h, !.hqr = q]]
    /\ UNCHANGED <<hQrIndex, sStatus, income, sQrIndex, pStatus, lock, txs, allocs,
                   expired, balance0, txIndex, catalog, today, users, listing>>

\* create, second command: SET homeless:qr:{qr_code} => id
CreateQrIndex(c) ==
    /\ call[c].pc = "k_qr"
    /\ hQrIndex' = [hQrIndex EXCEPT ![call[c].hqr] = call[c].hid]
    /\ call' = [call EXCEPT ![c] = [@ EXCEPT !.pc = "k_idn"]]
    /\ UNCHANGED <<hExists, hPartial, balance, hStatus, hName, sStatus, income, sQrIndex,
                   pStatus, lock, txs, allocs, expired, balance0, txIndex, outside>>

\* create, third and fourth command: SET homeless:id_number:{n} => id, then
\* SADD homeless:all (a key that is not part of the state); 201
CreateIdIndex(c) ==
    /\ call[c].pc = "k_idn"
    /\ idNumbers' = [idNumbers EXCEPT !.index[call[c].arg] = call[c].hid]
    /\ call' = [call EXCEPT ![c] = [@ EXCEPT !.pc = "done", !.result = OK]]
    /\ UNCHANGED <<store, lock, txs, allocs, expired, balance0, txIndex, catalog,
                   hQrCode, today, users, listing>>

\* -------------------------------------------------------- user management
\* id=uuid4() of the route: the request r creates the user of its own number
NewUser(r) == IF r = "r1" THEN "u1" ELSE IF r = "r2" THEN "u2" ELSE "u3"

\* the user keys with the request r moved on
UserStep(r, req) == [users EXCEPT !.req[r] = req]

\* the end of a user request
UserDone(r, code) ==
    [NoUserCall EXCEPT !.pc = "done", !.op = users.req[r].op, !.id = users.req[r].id,
                       !.result = code, !.settled = users.req[r].settled]

\* POST /users, get_by_username, first command: GET user:username:{name}; an
\* NGO admin creates NGO users with no association, an association admin
\* creates users of its own association
UserCreate(r) ==
    /\ users.req[r].pc = "idle"
    /\ \E n \in Usernames, ro \in Roles, a \in Associations \cup {None} :
         /\ (a = None) <=> (ro = "ngo_partner")
         /\ users' = UserStep(r, [NoUserCall EXCEPT !.op = "create", !.username = n,
                      !.role = ro, !.association_id = a, !.id = users.byName[n],
                      !.pc = IF users.byName[n] = None THEN "c_hset" ELSE "c_load"])
    /\ UNCHANGED <<store, lock, txs, allocs, call, expired, balance0, txIndex, catalog,
                   hQrCode, today, idNumbers, listing>>

\* get_by_username, second command: HGETALL user:{id}; 400 when the username
\* is taken; User(**data) raises on a hash that lacks required fields
UserCreateLoad(r) ==
    /\ users.req[r].pc = "c_load"
    /\ users' = UserStep(r,
          IF users.req[r].id \in users.partial
          THEN [UserDone(r, VALIDATION_ERROR) EXCEPT !.id = None]
          ELSE IF users.rec[users.req[r].id] # NoUser
          THEN [UserDone(r, HTTP_BAD_REQUEST) EXCEPT !.id = None]
          ELSE [users.req[r] EXCEPT !.pc = "c_hset", !.id = None])
    /\ UNCHANGED <<store, lock, txs, allocs, call, expired, balance0, txIndex, catalog,
                   hQrCode, today, idNumbers, listing>>

\* UserRepository.create, save, first command: HSET user:{id} of the record
\* User(id=uuid4(), ...)
UserSave(r) ==
    /\ users.req[r].pc = "c_hset"
    /\ LET q == users.req[r] IN
         users' = [users EXCEPT
                     !.rec[NewUser(r)] = [username |-> q.username, role |-> q.role,
                                          association_id |-> q.association_id],
                     !.partial = @ \ {NewUser(r)},
                     !.req[r] = [q EXCEPT !.pc = "c_name", !.id = NewUser(r)]]
    /\ UNCHANGED <<store, lock, txs, allocs, call, expired, balance0, txIndex, catalog,
                   hQrCode, today, idNumbers, listing>>

\* save, second command: SET user:username:{name} => id
UserIndexName(r) ==
    /\ users.req[r].pc = "c_name"
    /\ LET q == users.req[r] IN
         users' = [users EXCEPT !.byName[q.username] = q.id,
                                !.req[r] = [q EXCEPT !.pc = "c_role"]]
    /\ UNCHANGED <<store, lock, txs, allocs, call, expired, balance0, txIndex, catalog,
                   hQrCode, today, idNumbers, listing>>

\* create: SADD users:role:{role}
UserAddRole(r) ==
    /\ users.req[r].pc = "c_role"
    /\ LET q == users.req[r] IN
         users' = [users EXCEPT !.byRole[q.role] = @ \cup {q.id},
                                !.req[r] = [q EXCEPT !.pc = "c_all"]]
    /\ UNCHANGED <<store, lock, txs, allocs, call, expired, balance0, txIndex, catalog,
                   hQrCode, today, idNumbers, listing>>

\* create: SADD users:all; a user with no association is complete
UserAddAll(r) ==
    /\ users.req[r].pc = "c_all"
    /\ LET q == users.req[r] IN
         users' = [users EXCEPT !.all = @ \cup {q.id},
                                !.req[r] = IF q.association_id = None
                                           THEN UserDone(r, OK)
                                           ELSE [q EXCEPT !.pc = "c_assoc"]]
    /\ UNCHANGED <<store, lock, txs, allocs, call, expired, balance0, txIndex, catalog,
                   hQrCode, today, idNumbers, listing>>

\* create: SADD association:{id}:users, for a user with an association_id
UserAddAssoc(r) ==
    /\ users.req[r].pc = "c_assoc"
    /\ LET q == users.req[r] IN
         users' = [users EXCEPT !.byAssoc[q.association_id] = @ \cup {q.id},
                                !.req[r] = UserDone(r, OK)]
    /\ UNCHANGED <<store, lock, txs, allocs, call, expired, balance0, txIndex, catalog,
                   hQrCode, today, idNumbers, listing>>

\* DELETE /users/{id}: the route's get_by_id; 404 when the user is absent
UserDelete(r) ==
    /\ users.req[r].pc = "idle"
    /\ \E u \in Users :
         users' = UserStep(r,
            IF u \in users.partial
            THEN [NoUserCall EXCEPT !.pc = "done", !.op = "delete", !.id = u,
                                    !.result = VALIDATION_ERROR]
            ELSE IF users.rec[u] = NoUser
            THEN [NoUserCall EXCEPT !.pc = "done", !.op = "delete", !.id = u,
                                    !.result = HTTP_NOT_FOUND]
            ELSE [NoUserCall EXCEPT !.pc = "d_read", !.op = "delete", !.id = u,
                     !.settled = \A q \in UserCalls :
                                    NewUser(q) = u => users.req[q].pc = "done"])
    /\ UNCHANGED <<store, lock, txs, allocs, call, expired, balance0, txIndex, catalog,
                   hQrCode, today, idNumbers, listing>>

\* UserRepository.delete, first command: get_by_id; nothing is removed when
\* the user is absent
UserDeleteRead(r) ==
    /\ users.req[r].pc = "d_read"
    /\ LET q == users.req[r]
           user == users.rec[q.id] IN
         users' = UserStep(r,
            IF q.id \in users.partial THEN UserDone(r, VALIDATION_ERROR)
            ELSE IF user = NoUser THEN UserDone(r, OK)
            ELSE [q EXCEPT !.pc = "d_hash", !.username = user.username,
                           !.role = user.role])
    /\ UNCHANGED <<store, lock, txs, allocs, call, expired, balance0, txIndex, catalog,
                   hQrCode, today, idNumbers, listing>>

\* delete: DEL user:{id}
UserDropHash(r) ==
    /\ users.req[r].pc = "d_hash"
    /\ LET q == users.req[r] IN
         users' = [users EXCEPT !.rec[q.id] = NoUser, !.partial = @ \ {q.id},
                                !.req[r] = [q EXCEPT !.pc = "d_name"]]
    /\ UNCHANGED <<store, lock, txs, allocs, call, expired, balance0, txIndex, catalog,
                   hQrCode, today, idNumbers, listing>>

\* delete: DEL user:username:{user.username}
UserDropName(r) ==
    /\ users.req[r].pc = "d_name"
    /\ LET q == users.req[r] IN
         users' = [users EXCEPT !.byName[q.username] = None,
                                !.req[r] = [q EXCEPT !.pc = "d_role"]]
    /\ UNCHANGED <<store, lock, txs, allocs, call, expired, balance0, txIndex, catalog,
                   hQrCode, today, idNumbers, listing>>

\* delete: SREM users:role:{user.role}
UserDropRole(r) ==
    /\ users.req[r].pc = "d_role"
    /\ LET q == users.req[r] IN
         users' = [users EXCEPT !.byRole[q.role] = @ \ {q.id},
                                !.req[r] = [q EXCEPT !.pc = "d_all"]]
    /\ UNCHANGED <<store, lock, txs, allocs, call, expired, balance0, txIndex, catalog,
                   hQrCode, today, idNumbers, listing>>

\* delete: SREM users:all; no command touches association:{id}:users
UserDropAll(r) ==
    /\ users.req[r].pc = "d_all"
    /\ LET q == users.req[r] IN
         users' = [users EXCEPT !.all = @ \ {q.id},
                                !.req[r] = UserDone(r, OK)]
    /\ UNCHANGED <<store, lock, txs, allocs, call, expired, balance0, txIndex, catalog,
                   hQrCode, today, idNumbers, listing>>

\* UserRepository.update_status and update_last_login: each sends
\* HSET user:{id} <field> and then HSET user:{id} updated_at, without a look
\* at the key first.  This is one of those commands: it creates the key it
\* does not find, with that one field; on a stored user it changes a field
\* that no request here reads.
UserHset(u) ==
    /\ users' = [users EXCEPT !.partial =
                    IF users.rec[u] = NoUser THEN @ \cup {u} ELSE @]
    /\ UNCHANGED <<store, lock, txs, allocs, call, expired, balance0, txIndex, catalog,
                   hQrCode, today, idNumbers, listing>>

\* ----------------------------------------------------------------- listings
\* start_date / end_date not given
NoDate == -1
Dates == {NoDate} \cup (1..MaxTime)

\* the ordered history sets an entity can have: members [id, score], one
\* score per transaction id (every member has its transaction:{id} hash,
\* which TransactionRepository.create writes first)
ZSets ==
    UNION {{{[id |-> i, score |-> f[i]] : i \in ids} : f \in [ids -> 1..MaxTime]} :
             ids \in SUBSET (1..MaxRecords)}

\* a score range that leaves out its two ends
InScoreRange_exclusive(score, min, max) ==
    /\ min = NoDate \/ score > min
    /\ max = NoDate \/ score < max

\* min_score <= score <= max_score, "-inf" / "+inf" when the date is None
InScoreRange(score, min, max) ==
    /\ min = NoDate \/ score >= min
    /\ max = NoDate \/ score <= max

\* the order of ZREVRANGEBYSCORE: higher score first, equal scores by member
\* in reverse lexical order
Before(a, b) == a.score > b.score \/ (a.score = b.score /\ a.id > b.id)

RECURSIVE Descending(_)
Descending(z) ==
    IF z = {} THEN <<>>
    ELSE LET first == CHOOSE a \in z : \A b \in z \ {a} : Before(a, b)
         IN  <<first>> \o Descending(z \ {first})

\* redis.zrevrangebyscore(key, max_score, min_score)
zrevrangebyscore(z, max, min) ==
    Descending({e \in z : InScoreRange(e.score, min, max)})

\* the Python slice seq[start:end] for 0 <= start <= end
Slice(seq, start, end) ==
    SubSeq(seq, start + 1, IF end < Len(seq) THEN end ELSE Len(seq))

\* TransactionRepository._list_transactions
list_transactions(z, page, limit, start_date, end_date) ==
    LET transactions == zrevrangebyscore(z, end_date, start_date)
        start == (page - 1) * limit
    IN  [items |-> Slice(transactions, start, start + limit),
         total |-> Len(transactions)]

\* the next page of the history is asked for, until the pages cover the total
ListPage ==
    /\ listing.op = "history"
    /\ listing.page = 0 \/ listing.page * listing.limit < listing.total
    /\ LET r == list_transactions(listing.zset, listing.page + 1, listing.limit,
                                  listing.start_date, listing.end_date)
       IN  listing' = [listing EXCEPT !.page = @ + 1, !.items = r.items,
                           !.total = r.total, !.seen = @ \o r.items]
    /\ UNCHANGED <<store, lock, txs, allocs, call, expired, balance0, txIndex, catalog,
                   hQrCode, today, users, idNumbers>>

\* calendar days of one year as [month, day], and their order
Months == {1, 2}
CalendarDays == [month : Months, day : 1..MonthDays]
NotAfter(a, b) == a.month < b.month \/ (a.month = b.month /\ a.day <= b.day)

\* the daily buckets the store can hold: every record id is in one bucket at
\* most (the one of its creation day)
Buckets ==
    UNION {{[d \in CalendarDays |-> {i \in ids : f[i] = d}] :
               f \in [ids -> CalendarDays]} : ids \in SUBSET (1..MaxRecords)}

\* list_all with start_date and end_date, one pass of the while loop: SMEMBERS
\* of the bucket of `current`, then
\* current = datetime(current.year, current.month, current.day + 1), which
\* raises ValueError when the month has no such day
ReportDay ==
    /\ listing.op = "report" /\ listing.result = None
    /\ NotAfter(listing.current, listing.end_date)
    /\ LET ids == listing.ids \cup listing.buckets[listing.current] IN
         IF listing.current.day + 1 > MonthDays
         THEN listing' = [listing EXCEPT !.ids = ids, !.result = VALUE_ERROR]
         ELSE listing' = [listing EXCEPT !.ids = ids, !.current.day = @ + 1]
    /\ UNCHANGED <<store, lock, txs, allocs, call, expired, balance0, txIndex, catalog,
                   hQrCode, today, users, idNumbers>>

\* the loop is left when current > end_date: the records of the collected
\* ids are read, sorted and returned (page 1 with a limit above their number)
ReportReturn ==
    /\ listing.op = "report" /\ listing.result = None
    /\ ~NotAfter(listing.current, listing.end_date)
    /\ listing' = [listing EXCEPT !.result = OK]
    /\ UNCHANGED <<store, lock, txs, allocs, call, expired, balance0, txIndex, catalog,
                   hQrCode, today, users, idNumbers>>

\* ------------------------------------------------------------- environment
\* Redis expiry: the clock advances by TickSeconds; a lock key whose time to
\* live runs out is removed by the server.  `expired` records the owners that
\* were still inside their try block.
Remaining_persistent(lk) == lk

Remaining(lk) == IF lk.ttl > TickSeconds THEN [lk EXCEPT !.ttl = @ - TickSeconds]
                 ELSE Absent

TimePasses ==
    /\ \E h \in Homeless : lock[h] # Absent
    /\ lock' = [h \in Homeless |-> Remaining(lock[h])]
    /\ expired' = expired \cup
          {c \in Calls : \E h \in Homeless :
               /\ lock[h].owner = c /\ lock'[h] = Absent /\ call[c].pc \in InTry}
    /\ UNCHANGED <<store, txs, allocs, call, balance0, txIndex, outside>>

\* the worker process stops between acquire_lock and the end of the finally
\* block (killed, out of memory, host down): no later statement of the call
\* runs, the finally block included
Crash(c) ==
    /\ call[c].pc \in InTry
    /\ call' = [call EXCEPT ![c] = [@ EXCEPT !.pc = "crashed"]]
    /\ UNCHANGED shared

\* the beneficiaries whose key is removed in the scenarios of removal
Removable == {"h1"}

\* the homeless:{id} key is removed from the store from outside the
\* application (the case the re-read under the lock tests for); the QR index
\* entry stays
RecordRemoved(h) ==
    /\ key_exists(h)
    /\ hExists' = [hExists EXCEPT ![h] = FALSE]
    /\ hPartial' = hPartial \ {h}
    /\ UNCHANGED <<balance, hStatus, hName, hQrIndex, sStatus, income, sQrIndex, pStatus,
                   lock, txs, allocs, call, expired, balance0, txIndex, outside>>

\* ---------------------------------------------------------- specifications
\* purchases and allocations, with lock keys that expire
Next ==
    \/ \E c \in Calls : ResolveQr(c)
    \/ \E c \in Calls : LoadHomeless(c)
    \/ \E c \in Calls : LoadStore(c)
    \/ \E c \in Calls : LoadProduct(c)
    \/ \E c \in Calls : AcquireLock(c)
    \/ \E c \in Calls : Reread(c)
    \/ \E c \in Calls : DebitExists(c)
    \/ \E c \in Calls : Debit(c)
    \/ \E c \in Calls : DebitStamp(c)
    \/ \E c \in Calls : CreditStore(c)
    \/ \E c \in Calls : WriteLedger(c)
    \/ \E c \in Calls : IndexByHomeless(c)
    \/ \E c \in Calls : IndexByStore(c)
    \/ \E c \in Calls : IndexByDay(c)
    \/ \E c \in Calls : ReleaseLock(c)
    \/ \E c \in Calls : AllocRead(c)
    \/ \E c \in Calls : AllocLimitRead(c)
    \/ \E c \in Calls : BalanceLimitRead(c)
    \/ \E c \in Calls : AllocRecordWrite(c)
    \/ \E c \in Calls : AllocExists(c)
    \/ \E c \in Calls : AllocUpdateBalance(c)
    \/ \E c \in Calls : AllocStamp(c)
    \/ TimePasses

Spec == Init /\ [][Next]_vars

\* --- executions in which no allocation overlaps another call on its beneficiary
\* call d is between its first step and its return
InProgress(d) == call[d].pc \notin {"idle", "done"}

\* an allocation starts while no other call is working on its beneficiary
AllocReadApart(c) ==
    /\ AllocRead(c)
    /\ \A d \in Calls \ {c} :
          InProgress(d) /\ call'[c].pc # "done" => call[d].hid # call'[c].hid

\* a purchase starts while no allocation is working on its beneficiary
ResolveQrApart(c) ==
    /\ ResolveQr(c)
    /\ \A d \in Calls \ {c} :
          InProgress(d) /\ call[d].kind = "alloc" /\ call'[c].pc # "done"
              => call[d].hid # call'[c].hid

NextApart ==
    \/ \E c \in Calls : ResolveQrApart(c)
    \/ \E c \in Calls : LoadHomeless(c)
    \/ \E c \in Calls : LoadStore(c)
    \/ \E c \in Calls : LoadProduct(c)
    \/ \E c \in Calls : AcquireLock(c)
    \/ \E c \in Calls : Reread(c)
    \/ \E c \in Calls : DebitExists(c)
    \/ \E c \in Calls : Debit(c)
    \/ \E c \in Calls : DebitStamp(c)
    \/ \E c \in Calls : CreditStore(c)
    \/ \E c \in Calls : WriteLedger(c)
    \/ \E c \in Calls : IndexByHomeless(c)
    \/ \E c \in Calls : IndexByStore(c)
    \/ \E c \in Calls : IndexByDay(c)
    \/ \E c \in Calls : ReleaseLock(c)
    \/ \E c \in Calls : AllocReadApart(c)
    \/ \E c \in Calls : AllocLimitRead(c)
    \/ \E c \in Calls : BalanceLimitRead(c)
    \/ \E c \in Calls : AllocRecordWrite(c)
    \/ \E c \in Calls : AllocExists(c)
    \/ \E c \in Calls : AllocUpdateBalance(c)
    \/ \E c \in Calls : AllocStamp(c)
    \/ TimePasses

SpecApart == Init /\ [][NextApart]_vars

\* the same store with no request body remembered
InitLedger ==
    /\ InitStore
    /\ balance = [h \in Homeless |-> MaxBalance]
    /\ hStatus = [h \in Homeless |-> ACTIVE]
    /\ call = [c \in Calls |-> IdleCall]

\* purchases, allocations and beneficiary management on a store whose
\* beneficiary records can be removed from outside the application
NextGone ==
    \/ \E c \in Calls : ResolveQr(c)
    \/ \E c \in Calls : LoadHomeless(c)
    \/ \E c \in Calls : LoadStore(c)
    \/ \E c \in Calls : LoadProduct(c)
    \/ \E c \in Calls : AcquireLock(c)
    \/ \E c \in Calls : Reread(c)
    \/ \E c \in Calls : DebitExists(c)
    \/ \E c \in Calls : Debit(c)
    \/ \E c \in Calls : DebitStamp(c)
    \/ \E c \in Calls : CreditStore(c)
    \/ \E c \in Calls : WriteLedger(c)
    \/ \E c \in Calls : IndexByHomeless(c)
    \/ \E c \in Calls : IndexByStore(c)
    \/ \E c \in Calls : IndexByDay(c)
    \/ \E c \in Calls : ReleaseLock(c)
    \/ \E c \in Calls : AllocRead(c)
    \/ \E c \in Calls : AllocLimitRead(c)
    \/ \E c \in Calls : BalanceLimitRead(c)
    \/ \E c \in Calls : AllocRecordWrite(c)
    \/ \E c \in Calls : AllocExists(c)
    \/ \E c \in Calls : AllocUpdateBalance(c)
    \/ \E c \in Calls : AllocStamp(c)
    \/ \E c \in Calls : DeleteHomeless(c)
    \/ \E c \in Calls : UpdateHomeless(c)
    \/ \E c \in Calls : UpdateRead(c)
    \/ \E c \in Calls : UpdateSet(c)
    \/ \E c \in Calls : UpdateStamp(c)
    \/ \E c \in Calls : UpdateFinal(c)
    \/ \E c \in Calls : ReissueRead(c)
    \/ \E c \in Calls : ReissueDropIndex(c)
    \/ \E c \in Calls : ReissueSetCode(c)
    \/ \E c \in Calls : ReissueStamp(c)
    \/ \E c \in Calls : ReissueSetIndex(c)
    \/ \E h \in Removable : RecordRemoved(h)

\* the store of InitLedger; the request body of call c1 is remembered
InitGone ==
    /\ InitStore
    /\ balance = [h \in Homeless |-> MaxBalance]
    /\ hStatus = [h \in Homeless |-> ACTIVE]
    /\ call = [c \in Calls |-> IF c = "c1" THEN [IdleCall EXCEPT !.keep = TRUE]
                                 ELSE IdleCall]

SpecGone == InitGone /\ [][NextGone]_vars

\* the store of the management scenarios: both beneficiaries active with the
\* largest balance
InitOps ==
    /\ InitStore
    /\ balance = [h \in Homeless |-> MaxBalance]
    /\ hStatus = [h \in Homeless |-> ACTIVE]
    /\ call = [c \in Calls |-> [IdleCall EXCEPT !.keep = TRUE]]

\* transactions and allocations together with beneficiary, store and product
\* management; no lock expires
NextOps ==
    \/ \E c \in Calls : ResolveQr(c)
    \/ \E c \in Calls : LoadHomeless(c)
    \/ \E c \in Calls : LoadStore(c)
    \/ \E c \in Calls : LoadProduct(c)
    \/ \E c \in Calls : AcquireLock(c)
    \/ \E c \in Calls : Reread(c)
    \/ \E c \in Calls : DebitExists(c)
    \/ \E c \in Calls : Debit(c)
    \/ \E c \in Calls : DebitStamp(c)
    \/ \E c \in Calls : CreditStore(c)
    \/ \E c \in Calls : WriteLedger(c)
    \/ \E c \in Calls : IndexByHomeless(c)
    \/ \E c \in Calls : IndexByStore(c)
    \/ \E c \in Calls : IndexByDay(c)
    \/ \E c \in Calls : ReleaseLock(c)
    \/ \E c \in Calls : AllocRead(c)
    \/ \E c \in Calls : AllocLimitRead(c)
    \/ \E c \in Calls : BalanceLimitRead(c)
    \/ \E c \in Calls : AllocRecordWrite(c)
    \/ \E c \in Calls : AllocExists(c)
    \/ \E c \in Calls : AllocUpdateBalance(c)
    \/ \E c \in Calls : AllocStamp(c)
    \/ \E c \in Calls : DeleteHomeless(c)
    \/ \E c \in Calls : UpdateHomeless(c)
    \/ \E c \in Calls : UpdateIdNumber(c)
    \/ \E c \in Calls : UpdateName(c)
    \/ \E c \in Calls : UpdateRead(c)
    \/ \E c \in Calls : UpdateSet(c)
    \/ \E c \in Calls : UpdateStamp(c)
    \/ \E c \in Calls : UpdateFinal(c)
    \/ \E c \in Calls : UpdateStore(c)
    \/ \E c \in Calls : StoreUpdateRead(c)
    \/ \E c \in Calls : StoreUpdateSet(c)
    \/ \E c \in Calls : StoreUpdateStamp(c)
    \/ \E c \in Calls : StoreUpdateFinal(c)
    \/ \E c \in Calls : CreateStore(c)
    \/ \E c \in Calls : CreateStoreIndex(c)
    \/ \E c \in Calls : UpdateProduct(c)
    \/ \E c \in Calls : DeleteProduct(c)
    \/ \E c \in Calls : ProductUpdateRead(c)
    \/ \E c \in Calls : ProductUpdateSet(c)
    \/ \E c \in Calls : ProductUpdateStamp(c)
    \/ \E c \in Calls : ProductUpdateFinal(c)
    \/ \E c \in Calls : CreateProduct(c)
    \/ \E c \in Calls : CreateProductWrite(c)
    \/ \E c \in Calls : ReissueRead(c)
    \/ \E c \in Calls : ReissueDropIndex(c)
    \/ \E c \in Calls : ReissueSetCode(c)
    \/ \E c \in Calls : ReissueStamp(c)
    \/ \E c \in Calls : ReissueSetIndex(c)

SpecOps == InitOps /\ [][NextOps]_vars

\* purchases beside store and product management, from a store in which s3
\* and px are not created yet or were created before; both balances are the
\* largest, h2 is soft-deleted and the request body of call c1 is remembered
InitShop ==
    /\ InitPeople
    /\ InitGoods \/ InitOpened
    /\ listing = NoListing
    /\ config = SeededConfig
    /\ balance = [h \in Homeless |-> MaxBalance]
    /\ hStatus["h2"] = INACTIVE
    /\ call = [c \in Calls |-> IF c = "c1" THEN [IdleCall EXCEPT !.keep = TRUE]
                                 ELSE IdleCall]

NextShop ==
    \/ \E c \in Calls : ResolveQr(c)
    \/ \E c \in Calls : LoadHomeless(c)
    \/ \E c \in Calls : LoadStore(c)
    \/ \E c \in Calls : LoadProduct(c)
    \/ \E c \in Calls : AcquireLock(c)
    \/ \E c \in Calls : Reread(c)
    \/ \E c \in Calls : DebitExists(c)
    \/ \E c \in Calls : Debit(c)
    \/ \E c \in Calls : DebitStamp(c)
    \/ \E c \in Calls : CreditStore(c)
    \/ \E c \in Calls : WriteLedger(c)
    \/ \E c \in Calls : IndexByHomeless(c)
    \/ \E c \in Calls : IndexByStore(c)
    \/ \E c \in Calls : IndexByDay(c)
    \/ \E c \in Calls : ReleaseLock(c)
    \/ \E c \in Calls : UpdateStore(c)
    \/ \E c \in Calls : StoreUpdateRead(c)
    \/ \E c \in Calls : StoreUpdateSet(c)
    \/ \E c \in Calls : StoreUpdateStamp(c)
    \/ \E c \in Calls : StoreUpdateFinal(c)
    \/ \E c \in Calls : CreateStore(c)
    \/ \E c \in Calls : CreateStoreIndex(c)
    \/ \E c \in Calls : UpdateProduct(c)
    \/ \E c \in Calls : DeleteProduct(c)
    \/ \E c \in Calls : ProductUpdateRead(c)
    \/ \E c \in Calls : ProductUpdateSet(c)
    \/ \E c \in Calls : ProductUpdateStamp(c)
    \/ \E c \in Calls : ProductUpdateFinal(c)
    \/ \E c \in Calls : CreateProduct(c)
    \/ \E c \in Calls : CreateProductWrite(c)

SpecShop == InitShop /\ [][NextShop]_vars

\* allocations while the two settings are rewritten, from a store with the
\* seeded settings or with none; h2 is not active and the request body of
\* call c1 is remembered
InitConfig ==
    /\ InitKeys
    /\ listing = NoListing
    /\ config \in {SeededConfig, NoConfig}
    /\ hStatus["h2"] # ACTIVE
    /\ call = [c \in Calls |-> IF c = "c1" THEN [IdleCall EXCEPT !.keep = TRUE]
                                 ELSE IdleCall]

NextConfig ==
    \/ \E c \in Calls : AllocRead(c)
    \/ \E c \in Calls : AllocLimitRead(c)
    \/ \E c \in Calls : BalanceLimitRead(c)
    \/ \E c \in Calls : AllocRecordWrite(c)
    \/ \E c \in Calls : AllocExists(c)
    \/ \E c \in Calls : AllocUpdateBalance(c)
    \/ \E c \in Calls : AllocStamp(c)
    \/ \E k \in ConfigKeys, v \in ConfigValues : UpdateConfig(k, v)

SpecConfig == InitConfig /\ [][NextConfig]_vars

\* user accounts created and hard-deleted by concurrent requests
NextUsers ==
    \/ \E r \in UserCalls : UserCreate(r)
    \/ \E r \in UserCalls : UserCreateLoad(r)
    \/ \E r \in UserCalls : UserSave(r)
    \/ \E r \in UserCalls : UserIndexName(r)
    \/ \E r \in UserCalls : UserAddRole(r)
    \/ \E r \in UserCalls : UserAddAll(r)
    \/ \E r \in UserCalls : UserAddAssoc(r)
    \/ \E r \in UserCalls : UserDelete(r)
    \/ \E r \in UserCalls : UserDeleteRead(r)
    \/ \E r \in UserCalls : UserDropHash(r)
    \/ \E r \in UserCalls : UserDropName(r)
    \/ \E r \in UserCalls : UserDropRole(r)
    \/ \E r \in UserCalls : UserDropAll(r)
    \/ \E u \in Users : UserHset(u)

SpecUsers == InitOps /\ [][NextUsers]_vars

\* purchases whose ledger write can be cut short, across midnight
NextLedger ==
    \/ \E c \in Calls : ResolveQr(c)
    \/ \E c \in Calls : LoadHomeless(c)
    \/ \E c \in Calls : LoadStore(c)
    \/ \E c \in Calls : LoadProduct(c)
    \/ \E c \in Calls : AcquireLock(c)
    \/ \E c \in Calls : Reread(c)
    \/ \E c \in Calls : DebitExists(c)
    \/ \E c \in Calls : Debit(c)
    \/ \E c \in Calls : DebitStamp(c)
    \/ \E c \in Calls : CreditStore(c)
    \/ \E c \in Calls : WriteLedger(c)
    \/ \E c \in Calls : IndexByHomeless(c)
    \/ \E c \in Calls : IndexByStore(c)
    \/ \E c \in Calls : IndexByDay(c)
    \/ \E c \in Calls : ReleaseLock(c)
    \/ TimePasses
    \/ DayPasses

SpecLedger == InitLedger /\ [][NextLedger]_vars

\* purchases whose worker can stop while it holds the lock; the Redis server
\* keeps running, so the time to live of a key keeps counting down
NextCrash ==
    \/ \E c \in Calls : ResolveQr(c)
    \/ \E c \in Calls : LoadHomeless(c)
    \/ \E c \in Calls : LoadStore(c)
    \/ \E c \in Calls : LoadProduct(c)
    \/ \E c \in Calls : AcquireLock(c)
    \/ \E c \in Calls : Reread(c)
    \/ \E c \in Calls : DebitExists(c)
    \/ \E c \in Calls : Debit(c)
    \/ \E c \in Calls : DebitStamp(c)
    \/ \E c \in Calls : CreditStore(c)
    \/ \E c \in Calls : WriteLedger(c)
    \/ \E c \in Calls : IndexByHomeless(c)
    \/ \E c \in Calls : IndexByStore(c)
    \/ \E c \in Calls : IndexByDay(c)
    \/ \E c \in Calls : ReleaseLock(c)
    \/ \E c \in Calls : Crash(c)
    \/ TimePasses

\* a store with the one beneficiary h1, active and with a full balance: the
\* code qh2 resolves to nobody
InitCrash ==
    /\ hExists = [h \in Homeless |-> h = "h1"]
    /\ hPartial = {}
    /\ balance = [h \in Homeless |-> MaxBalance]
    /\ hStatus = [h \in Homeless |-> ACTIVE]
    /\ hName = [h \in Homeless |-> IF h = "h1" THEN "nm1" ELSE None]
    /\ hQrIndex = [q \in QRCodes |-> IF q = "qh1" THEN "h1" ELSE None]
    /\ InitCatalog
    /\ lock = [h \in Homeless |-> Absent]
    /\ txs = {}
    /\ allocs = {}
    /\ expired = {}
    /\ balance0 = balance
    /\ txIndex = {}
    /\ hQrCode = [h \in Homeless |-> IF h = "h1" THEN "qh1" ELSE "qh2"]
    /\ today = "d1"
    /\ users = NoUsers
    /\ idNumbers = [field |-> [h \in Homeless |-> IF h = "h1" THEN "i1" ELSE None],
                    index |-> [n \in IdNumbers |-> IF n = "i1" THEN "h1" ELSE None]]
    /\ listing = NoListing
    /\ call = [c \in Calls |-> IdleCall]

SpecCrash == InitCrash /\ [][NextCrash]_vars /\ WF_vars(TimePasses)

\* a client lists the history of one entity, page after page, with any
\* history, date range and limit
InitHistory ==
    /\ InitKeys
    /\ config = SeededConfig
    /\ balance = [h \in Homeless |-> MaxBalance]
    /\ hStatus = [h \in Homeless |-> ACTIVE]
    /\ call = [c \in Calls |-> IdleCall]
    /\ listing \in [op : {"history"}, zset : ZSets, start_date : Dates,
                    end_date : Dates, limit : 1..MaxLimit, page : {0},
                    items : {<<>>}, total : {0}, seen : {<<>>}]

NextHistory == ListPage

SpecHistory == InitHistory /\ [][NextHistory]_vars

\* a report over the daily buckets from a start day through an end day
InitReport ==
    /\ InitKeys
    /\ config = SeededConfig
    /\ balance = [h \in Homeless |-> MaxBalance]
    /\ hStatus = [h \in Homeless |-> ACTIVE]
    /\ call = [c \in Calls |-> IdleCall]
    /\ \E b \in Buckets, sd \in CalendarDays, ed \in CalendarDays :
         /\ NotAfter(sd, ed)
         /\ listing = [op |-> "report", buckets |-> b, start_date |-> sd,
                       end_date |-> ed, current |-> sd, ids |-> {}, result |-> None]

NextReport == ReportDay \/ ReportReturn

SpecReport == InitReport /\ [][NextReport]_vars

\* a store with no beneficiary yet: beneficiaries are created and updated by
\* concurrent requests
InitRegistry ==
    /\ hExists = [h \in Homeless |-> FALSE]
    /\ hPartial = {}
    /\ balance = [h \in Homeless |-> 0]
    /\ hStatus = [h \in Homeless |-> ACTIVE]
    /\ hName = [h \in Homeless |-> None]
    /\ hQrIndex = [q \in QRCodes |-> None]
    /\ hQrCode = [h \in Homeless |-> None]
    /\ idNumbers = [field |-> [h \in Homeless |-> None],
                    index |-> [n \in IdNumbers |-> None]]
    /\ InitCatalog
    /\ lock = [h \in Homeless |-> Absent]
    /\ txs = {} /\ allocs = {} /\ expired = {} /\ txIndex = {}
    /\ balance0 = balance
    /\ today = "d1"
    /\ users = NoUsers
    /\ listing = NoListing
    /\ call = [c \in Calls |-> IdleCall]

NextRegistry ==
    \/ \E c \in Calls : CreateHomeless(c)
    \/ \E c \in Calls : CreateLoad(c)
    \/ \E c \in Calls : CreateWrite(c)
    \/ \E c \in Calls : CreateQrIndex(c)
    \/ \E c \in Calls : CreateIdIndex(c)
    \/ \E c \in Calls : UpdateIdNumber(c)
    \/ \E c \in Calls : UpdateName(c)
    \/ \E c \in Calls : UpdateRead(c)
    \/ \E c \in Calls : UpdateSet(c)
    \/ \E c \in Calls : UpdateStamp(c)
    \/ \E c \in Calls : UpdateFinal(c)

SpecRegistry == InitRegistry /\ [][NextRegistry]_vars

\* ================================================================== claims
Done(c) == call[c].pc = "done"

\* the key homeless:{h} holds a hash that get_by_id cannot parse
Unreadable(h) == get_by_id(h) = VALIDATION_ERROR
IsTx(c) == call[c].kind = "tx"

\* the product id p names a stored product
Stocked(p) == p # None /\ pData[p].present
IsAlloc(c) == call[c].kind = "alloc"
Results(c, d) == {call[c].result, call[d].result}

\* two finished createTransaction calls c, d that passed validation for the
\* same beneficiary, each amount within the initial balance, together above it
Overdraw(c, d) ==
    /\ c # d /\ IsTx(c) /\ IsTx(d) /\ Done(c) /\ Done(d)
    /\ call[c].hid # None /\ call[c].hid = call[d].hid
    /\ call[c].amount <= balance0[call[c].hid]
    /\ call[d].amount <= balance0[call[c].hid]
    /\ call[c].amount + call[d].amount > balance0[call[c].hid]

\* the beneficiary record stayed in the store and no write raised a Redis error
Undisturbed(c, d) ==
    /\ hExists[call[c].hid]
    /\ INFRA_FAULT \notin Results(c, d)

\* C1 as stated: two concurrent createTransaction calls on one beneficiary
\* that each fit the balance but jointly overdraw it end as exactly one
\* success and one InsufficientBalance, and no balance is ever negative.
C1_AsStated ==
    /\ \A h \in Homeless : balance[h] >= 0
    /\ \A c, d \in Calls :
         Overdraw(c, d) /\ Undisturbed(c, d)
            => Results(c, d) = {OK, INSUFFICIENT_BALANCE}

\* C1 amended: provided the lock did not expire while held, such a pair ends
\* as exactly one success and one failure, the failure being
\* InsufficientBalance or TransactionLocked; both never succeed and no balance
\* is ever negative.
C1_OneSuccess ==
    /\ \A h \in Homeless : balance[h] >= 0
    /\ \A c, d \in Calls :
         Overdraw(c, d) /\ Undisturbed(c, d) /\ expired = {}
            => \/ Results(c, d) = {OK, INSUFFICIENT_BALANCE}
               \/ Results(c, d) = {OK, TRANSACTION_LOCKED}

C1_Witness ==
    /\ Overdraw("c1", "c2") /\ Undisturbed("c1", "c2") /\ expired = {}
    /\ call["c1"].result = OK /\ call["c2"].result = INSUFFICIENT_BALANCE

\* the completed records of beneficiary h
Completed(h) == {t \in txs : t.homeless_id = h /\ t.status = COMPLETED}

\* two finished createTransaction calls of the same amount a on a beneficiary
\* whose initial balance b satisfies a <= b < 2a
ScenarioF(c, d) == Overdraw(c, d) /\ call[c].amount = call[d].amount

\* C2 as stated: two concurrent calls of amount a on balance b, a <= b < 2a,
\* write exactly one completed record with balance_after = b - a, the other
\* call fails with TransactionLocked or InsufficientBalance, and the final
\* balance is b - a.
C2_AsStated ==
    \A c, d \in Calls :
        ScenarioF(c, d) /\ Undisturbed(c, d) =>
           LET h == call[c].hid
               after == balance0[h] - call[c].amount
           IN  /\ Cardinality(Completed(h)) = 1
               /\ \A t \in Completed(h) : t.balance_after = after
               /\ \/ Results(c, d) = {OK, INSUFFICIENT_BALANCE}
                  \/ Results(c, d) = {OK, TRANSACTION_LOCKED}
               /\ balance[h] = after

\* C2 amended: the same, provided the lock did not expire while held.
C2_SingleDebit ==
    \A c, d \in Calls :
        ScenarioF(c, d) /\ Undisturbed(c, d) /\ expired = {} =>
           LET h == call[c].hid
               after == balance0[h] - call[c].amount
           IN  /\ Cardinality(Completed(h)) = 1
               /\ \A t \in Completed(h) : t.balance_after = after
               /\ \/ Results(c, d) = {OK, INSUFFICIENT_BALANCE}
                  \/ Results(c, d) = {OK, TRANSACTION_LOCKED}
               /\ balance[h] = after

C2_Witness ==
    /\ ScenarioF("c1", "c2") /\ Undisturbed("c1", "c2") /\ expired = {}
    /\ call["c1"].amount = 2 /\ balance0[call["c1"].hid] = 3
    /\ call["c1"].result = TRANSACTION_LOCKED /\ call["c2"].result = OK
    /\ balance[call["c1"].hid] = 1

\* C3: every completed Transaction record has
\* balance_after = balance_before - amount and balance_after >= 0.
C3_RecordArithmetic ==
    \A t \in txs : t.status = COMPLETED =>
        /\ t.balance_after = t.balance_before - t.amount
        /\ t.balance_after >= 0

C3_Witness ==
    \E t \in txs : t.status = COMPLETED /\ t.amount = 2 /\ t.balance_after = 1

\* C4: the stored balance of every beneficiary is >= 0 in every state, whatever
\* the interleaving of createTransaction and allocate on that beneficiary.
C4_BalanceNonNegative == \A h \in Homeless : balance[h] >= 0

\* an allocate wrote the balance while a createTransaction on the same
\* beneficiary, which had read the balance before, is about to debit it
C4_Witness ==
    \E c, d \in Calls :
        /\ IsAlloc(c) /\ Done(c) /\ call[c].result = OK
        /\ IsTx(d) /\ call[d].pc = "t_debit" /\ call[d].hid = call[c].hid
        /\ call[d].bb = call[c].bb
        /\ call[d].ba = 0

\* C5: provided no lock expired while held, at most one createTransaction call
\* per beneficiary is between its successful acquire and its release.
C5_MutualExclusion ==
    expired = {} =>
        \A c, d \in Calls :
            /\ call[c].pc \in InTry /\ call[d].pc \in InTry
            /\ call[c].hid = call[d].hid
            => c = d

C5_Witness ==
    /\ expired = {}
    /\ call["c1"].pc \in InTry
    /\ call["c2"].result = TRANSACTION_LOCKED
    /\ call["c2"].details.ref = call["c1"].hid
\* C6 as stated: a createTransaction call that acquired the lock has released
\* it when it returns, whichever step failed after the acquisition: no
\* finished call still owns a lock key.
C6_ReleasedOnReturn ==
    \A c \in Calls : Done(c) => \A h \in Homeless : lock[h].owner # c

\* C7 as stated: when the re-read under the lock finds no beneficiary record,
\* the caller sees BeneficiaryNotFound and no other fault.
C7_GoneIsNotFound ==
    \A c \in Calls :
        IsTx(c) /\ Done(c) /\ call[c].exc = HOMELESS_NOT_FOUND
            => call[c].result = HOMELESS_NOT_FOUND

\* the step of call c out of program counter p
StepFrom(c, p) == call[c].pc = p /\ call'[c] # call[c]

\* C8: acquire returns true exactly when no lock key existed for the entity;
\* then the key exists with the given expiry; when it returns false the
\* existing key and its remaining time to live are unchanged.
C8_AcquireContract ==
    [][\A c \in Calls : StepFrom(c, "t_lock") =>
          LET h == call[c].hid
              returnedTrue == call'[c].pc = "t_reread"
          IN  /\ returnedTrue <=> (lock[h] = Absent)
              /\ returnedTrue =>
                     /\ lock'[h] # Absent
                     /\ lock'[h].ttl = LockTimeout
                     /\ lock'[h].owner = c
              /\ ~returnedTrue => lock'[h] = lock[h]]_vars

\* a refused acquire met a key with part of its time to live elapsed
C8_Witness ==
    \E h \in Homeless :
        /\ call["c2"].result = TRANSACTION_LOCKED /\ call["c2"].details.ref = h
        /\ lock[h].owner = "c1" /\ lock[h].ttl = LockTimeout - TickSeconds

\* C9: a createTransaction call that reaches the acquisition while the lock
\* key exists fails at once with TransactionLocked and changes no balance, no
\* income, no ledger record and no lock key; being finished, it never runs
\* the release step.
C9_RefusedChangesNothing ==
    [][\A c \in Calls :
          StepFrom(c, "t_lock") /\ lock[call[c].hid] # Absent =>
              /\ call'[c].pc = "done"
              /\ call'[c].result = TRANSACTION_LOCKED
              /\ balance' = balance /\ income' = income
              /\ txs' = txs /\ allocs' = allocs
              /\ lock' = lock]_vars

C9_Witness ==
    /\ call["c1"].result = TRANSACTION_LOCKED
    /\ call["c2"].pc = "t_debit"
    /\ lock[call["c2"].hid].owner = "c2"
    /\ call["c1"].details.ref = call["c2"].hid
    /\ balance = balance0 /\ txs = {}

\* C10: when the balance re-read under the lock is smaller than the amount,
\* the call fails with InsufficientBalance, details current_balance = that
\* balance and required = the amount, and balance, income and ledger stay as
\* they are (the re-read and the release are the call's only remaining steps).
C10_InsufficientBalance ==
    [][\A c \in Calls :
          /\ StepFrom(c, "t_reread") /\ hExists[call[c].hid] =>
               LET h == call[c].hid
                   short == balance[h] < call[c].amount
               IN  /\ short <=> (call'[c].exc = INSUFFICIENT_BALANCE)
                   /\ short =>
                        /\ call'[c].pc = "t_release"
                        /\ call'[c].details.current_balance = balance[h]
                        /\ call'[c].details.required = call[c].amount
                        /\ balance' = balance /\ income' = income /\ txs' = txs
          /\ StepFrom(c, "t_release") /\ call[c].exc = INSUFFICIENT_BALANCE =>
               /\ call'[c].pc = "done"
               /\ call'[c].result = INSUFFICIENT_BALANCE
               /\ call'[c].details = call[c].details
               /\ balance' = balance /\ income' = income /\ txs' = txs]_vars

\* balance 1, amount 2: details {current_balance: 1, required: 2}, balance still 1
C10_Witness ==
    \E c \in Calls :
        /\ Done(c) /\ call[c].result = INSUFFICIENT_BALANCE
        /\ call[c].details.current_balance = 1 /\ call[c].details.required = 2
        /\ balance[call[c].hid] = 1

\* C11: a call that passed validation and found the lock free goes on from the
\* re-read to the balance write exactly when amount <= the balance it reads
\* there, and, met by no Redis error, returns success exactly in that case; an
\* amount equal to the balance succeeds with balance_after = 0.
C11_SucceedsIffCovered ==
    [][\A c \in Calls :
          /\ StepFrom(c, "t_reread") /\ hExists[call[c].hid] =>
               LET b == balance[call[c].hid] IN
               /\ call'[c].bb = b
               /\ (call'[c].pc = "t_exists") <=> (call[c].amount <= b)
               /\ call[c].amount = b => call'[c].pc = "t_exists" /\ call'[c].ba = 0
          /\ StepFrom(c, "t_release") /\ call[c].homeless # None
                                      /\ call[c].exc # INFRA_FAULT =>
               /\ (call'[c].result = OK) <=> (call[c].amount <= call[c].bb)
               /\ call'[c].result = OK /\ call[c].amount = call[c].bb =>
                    \E t \in txs' : t.id = c /\ t.balance_after = 0]_vars

\* a purchase of the whole balance returned success and left balance 0
C11_Witness ==
    \E c \in Calls :
        /\ Done(c) /\ IsTx(c) /\ call[c].result = OK
        /\ call[c].amount = call[c].bb /\ call[c].bb = MaxAmount
        /\ balance[call[c].hid] = 0
        /\ \E t \in txs : t.id = c /\ t.balance_after = 0

\* the typed errors of steps 1-3
ValidationErrors == {HOMELESS_NOT_FOUND, HOMELESS_INACTIVE, STORE_NOT_FOUND,
                     STORE_INACTIVE, PRODUCT_INACTIVE}

\* the pcs of steps 1-3
ValidationPcs == {"idle", "t_homeless", "t_store", "t_product"}

\* a step of call c through one of the lookups of steps 1-3
ValidationStep(c) ==
    call[c].pc \in ValidationPcs /\ call'[c] # call[c] /\ call'[c].kind = "tx"

\* C12: a createTransaction call rejected in validation ends in the step that
\* rejects it with one of the five typed errors; that step changes no lock
\* key, no balance, no income and no ledger record, and the call holds no lock.
C12_RejectedTouchesNothing ==
    [][\A c \in Calls :
          ValidationStep(c) /\ call'[c].pc = "done" =>
              /\ call'[c].result \in ValidationErrors
              /\ lock' = lock
              /\ \A h \in Homeless : lock'[h].owner # c
              /\ hExists' = hExists /\ balance' = balance /\ income' = income
              /\ txs' = txs /\ allocs' = allocs]_vars

\* a call turned away for the soft-deleted product while the other call holds
\* the lock inside its critical section
C12_Witness ==
    /\ call["c1"].result = PRODUCT_INACTIVE /\ call["c1"].details.ref = "p2"
    /\ call["c2"].pc = "t_debit" /\ lock[call["c2"].hid].owner = "c2"
    /\ balance = balance0 /\ income = [s \in Stores |-> 0] /\ txs = {}

\* the first check of steps 1-3 that a request body r fails against the
\* store, in the order the specification lists them; OK when it passes all
FirstFailing(r) ==
    LET h == hQrIndex[r.hqr]
        s == sQrIndex[r.sqr]
    IN  IF h = None \/ ~hExists[h] THEN HOMELESS_NOT_FOUND
        ELSE IF hStatus[h] # ACTIVE THEN HOMELESS_INACTIVE
        ELSE IF s = None THEN STORE_NOT_FOUND
        ELSE IF sStatus[s] # ACTIVE THEN STORE_INACTIVE
        ELSE IF Stocked(r.pid) /\ pStatus[r.pid] # ACTIVE THEN PRODUCT_INACTIVE
        ELSE OK

\* the order as far as the acquisition and the two checks under the lock:
\* what each step decides against the store as it is when the step runs, not
\* yet what the caller is told (a record that cannot be parsed is left aside)
OrderOfChecks(c) ==
    /\ StepFrom(c, "idle") /\ call'[c].kind = "tx" =>
         IF call'[c].pc = "done"
         THEN /\ call'[c].result = HOMELESS_NOT_FOUND
              /\ hQrIndex[call'[c].details.ref] = None
         ELSE /\ call'[c].pc = "t_homeless"
              /\ call'[c].hid # None
              /\ hQrIndex[call'[c].hqr] = call'[c].hid
    /\ StepFrom(c, "t_homeless") /\ ~Unreadable(call[c].hid) =>
         LET h == call[c].hid IN
         IF ~hExists[h]
         THEN call'[c].pc = "done" /\ call'[c].result = HOMELESS_NOT_FOUND
         ELSE IF hStatus[h] # ACTIVE
         THEN call'[c].pc = "done" /\ call'[c].result = HOMELESS_INACTIVE
         ELSE call'[c].pc = "t_store" /\ call'[c].result = None
    /\ StepFrom(c, "t_store") =>
         IF call'[c].pc = "done"
         THEN \/ /\ call'[c].result = STORE_NOT_FOUND
                 /\ sQrIndex[call'[c].details.ref] = None
              \/ /\ call'[c].result = STORE_INACTIVE
                 /\ call'[c].details.ref \in Stores
                 /\ sStatus[call'[c].details.ref] # ACTIVE
         ELSE /\ call'[c].sid # None
              /\ sQrIndex[call'[c].sqr] = call'[c].sid
              /\ sStatus[call'[c].sid] = ACTIVE
              /\ call'[c].pc = IF call'[c].pid = None THEN "t_lock" ELSE "t_product"
              /\ call'[c].result = None
    /\ StepFrom(c, "t_product") =>
         IF Stocked(call[c].pid) /\ pStatus[call[c].pid] # ACTIVE
         THEN call'[c].pc = "done" /\ call'[c].result = PRODUCT_INACTIVE
         ELSE call'[c].pc = "t_lock" /\ call'[c].result = None
    /\ StepFrom(c, "t_lock") =>
         IF lock[call[c].hid] # Absent
         THEN call'[c].pc = "done" /\ call'[c].result = TRANSACTION_LOCKED
         ELSE call'[c].pc = "t_reread"
    /\ StepFrom(c, "t_reread") /\ ~Unreadable(call[c].hid) =>
         call'[c].exc = IF ~hExists[call[c].hid] THEN HOMELESS_NOT_FOUND
                        ELSE IF balance[call[c].hid] < call[c].amount
                             THEN INSUFFICIENT_BALANCE
                        ELSE None

\* C13: createTransaction reports the first failing check in the order
\* beneficiary missing, beneficiary not active, store missing, store not
\* active, product inactive, lock held, beneficiary gone under the lock,
\* insufficient balance; the error raised under the lock is the one the
\* caller gets.
C13_FirstFailingCheck ==
    [][\A c \in Calls :
          /\ OrderOfChecks(c)
          /\ StepFrom(c, "t_release")
                /\ call[c].exc \in {HOMELESS_NOT_FOUND, INSUFFICIENT_BALANCE} =>
                    call'[c].result = call[c].exc]_vars

\* a stored product hash that get_by_id cannot turn into a Product: a field
\* cleared by a PATCH with null
Garbled(p) ==
    /\ Stocked(p)
    /\ \/ pStatus[p] = BLANK \/ pData[p].name = BLANK
       \/ pData[p].points = BLANK \/ pData[p].category = BLANK

\* C14: the product is looked up after steps 1 and 2 have passed, and only for
\* a request that names one.  The call fails with ProductInactive exactly when
\* the id resolves to a product whose status is not active, as the product is
\* stored at the moment of the lookup (created, soft-deleted and patched beside
\* the purchase included); otherwise, an id that resolves to nothing
\* included, it goes on to the lock with nothing reported, as a request
\* without product id does.  A product hash that cannot be parsed ends the
\* call with the error of the parse.
C14_ProductCheck ==
    [][\A c \in Calls :
          /\ StepFrom(c, "t_store") /\ call'[c].pc # "done" =>
               /\ call[c].keep => call'[c].pid = call[c].request.pid
               /\ call'[c].pc = IF call'[c].pid = None THEN "t_lock" ELSE "t_product"
               /\ call'[c].result = None /\ call'[c].details = NoDetails
               /\ sQrIndex[call'[c].sqr] = call'[c].sid
               /\ sStatus[call'[c].sid] = ACTIVE
          /\ call'[c].pc = "t_product" /\ call[c].pc # "t_product" =>
               call[c].pc = "t_store"
          /\ call'[c].pc = "t_store" /\ call[c].pc # "t_store" =>
               /\ call[c].pc = "t_homeless"
               /\ hExists[call[c].hid] /\ hStatus[call[c].hid] = ACTIVE
          /\ StepFrom(c, "t_product") =>
               LET p == call[c].pid
                   inactive == Stocked(p) /\ ~Garbled(p) /\ pStatus[p] # ACTIVE
               IN  /\ p # None
                   /\ (call'[c].result = PRODUCT_INACTIVE) <=> inactive
                   /\ inactive => call'[c].pc = "done" /\ call'[c].details.ref = p
                   /\ Garbled(p) =>
                        /\ call'[c].pc = "done"
                        /\ call'[c].result =
                              IF pData[p].points = BLANK THEN VALUE_ERROR
                              ELSE VALIDATION_ERROR
                   /\ ~inactive /\ ~Garbled(p) =>
                        /\ call'[c].pc = "t_lock"
                        /\ call'[c].result = None
                        /\ call'[c].details = NoDetails
          /\ call'[c] # call[c] /\ call'[c].result = PRODUCT_INACTIVE =>
               call[c].pc = "t_product"]_vars

\* a purchase sent with a product id that no product has went through beside
\* a request that soft-deleted a product of the store
C14_Witness ==
    /\ call["c1"].request.pid = "px" /\ pStatus["px"] = None
    /\ Done("c1") /\ call["c1"].result = OK
    /\ \E t \in txs : t.id = "c1"
    /\ call["c2"].kind = "product_delete" /\ call["c2"].result = OK

\* the step in which call c returns its Transaction to the caller
Succeeds(c) == StepFrom(c, "t_release") /\ call'[c].result = OK

\* what a successful call has done to the ledger and to the store's income,
\* and what no step of a createTransaction call does
LedgerAndIncome(c) ==
    /\ Succeeds(c) =>
         /\ Cardinality({t \in txs : t.id = c}) = 1
         /\ \A t \in txs : t.id = c =>
              /\ t.status = COMPLETED /\ t.amount = call[c].amount
              /\ t.homeless_qr_code = call[c].hqr
              /\ t.store_qr_code = call[c].sqr
              /\ hQrIndex[t.homeless_qr_code] = t.homeless_id
              /\ sQrIndex[t.store_qr_code] = t.store_id
    /\ StepFrom(c, "t_income") /\ call'[c].pc = "t_ledger" =>
         income'[call[c].sid] = income[call[c].sid] + call[c].amount
    /\ StepFrom(c, "t_ledger") /\ call'[c].pc = "t_zhome" =>
         /\ Cardinality(txs') = Cardinality(txs) + 1
         /\ txs \subseteq txs'
    /\ (\E i \in 2..4 : StepFrom(c, LedgerPcs[i])) => txs' = txs
    /\ IsTx(c) /\ call'[c] # call[c] =>
         /\ \A h \in Homeless \ {call[c].hid} : balance'[h] = balance[h]
         /\ \A s \in Stores \ {call[c].sid} : income'[s] = income[s]

\* the balance write of call c went through (the calls that succeed are
\* among those that take this step)
Debits(c) == StepFrom(c, "t_debit") /\ call'[c].pc = "t_stamp"

\* C15 as stated: a createTransaction that succeeds lowers the stored balance
\* by exactly amount, raises the store's income by exactly amount and adds
\* exactly one completed record with the request's two QR codes; it changes
\* no other balance and no other income.
C15_AsStated ==
    [][\A c \in Calls :
          /\ LedgerAndIncome(c)
          /\ Debits(c) =>
               balance'[call[c].hid] = balance[call[c].hid] - call[c].amount]_vars

\* C15: the same, the decrease being exact when nothing else wrote or removed
\* the beneficiary's record between the call's re-read and its balance write:
\* the call writes balance_before - amount, which lowers the balance by amount
\* when no lock expired under a holder, the record is still there and the
\* other call is no allocation to the same beneficiary.
C15_EffectsOfSuccess ==
    [][\A c \in Calls :
          /\ LedgerAndIncome(c)
          /\ Debits(c) /\ hExists[call[c].hid] =>
               /\ balance'[call[c].hid] = call[c].bb - call[c].amount
               /\ expired = {} /\ (\A d \in Calls \ {c} :
                                      ~(IsAlloc(d) /\ call[d].hid = call[c].hid)) =>
                    balance'[call[c].hid] = balance[call[c].hid] - call[c].amount]_vars

\* both calls paid out of the same balance one after the other: two records
\* with the request's QR codes, the income raised by both amounts
C15_Witness ==
    /\ Done("c1") /\ Done("c2") /\ call["c1"].result = OK /\ call["c2"].result = OK
    /\ IsTx("c1") /\ IsTx("c2") /\ call["c1"].hid = call["c2"].hid
    /\ expired = {} /\ hExists["h1"]
    /\ Cardinality(txs) = 2
    /\ \A t \in txs : t.homeless_qr_code = "qh1" /\ t.store_qr_code = "qs1"
    /\ income["s1"] = call["c1"].amount + call["c2"].amount
    /\ balance["h1"] = balance0["h1"] - income["s1"]

AllDone == \A c \in Calls : Done(c)

RECURSIVE SumOfAmounts(_)
SumOfAmounts(S) ==
    IF S = {} THEN 0
    ELSE LET t == CHOOSE x \in S : TRUE IN t.amount + SumOfAmounts(S \ {t})

\* the completed Transaction records of store s
CompletedAt(s) == {t \in txs : t.store_id = s /\ t.status = COMPLETED}

\* C16: once all calls have finished, none of them ended by a Redis error,
\* every store's income is its initial income (0) plus the sum of the amounts
\* of its completed Transaction records, however the calls interleaved.
C16_NoLostIncome ==
    AllDone /\ INFRA_FAULT \notin Results("c1", "c2") =>
        \A s \in Stores : income[s] = 0 + SumOfAmounts(CompletedAt(s))

\* two beneficiaries paid the same store, both calls finished
C16_Witness ==
    /\ AllDone
    /\ call["c1"].result = OK /\ call["c2"].result = OK
    /\ call["c1"].hid = "h1" /\ call["c2"].hid = "h2"
    /\ Cardinality(CompletedAt("s1")) = 2
    /\ income["s1"] = call["c1"].amount + call["c2"].amount
    /\ call["c1"].amount # call["c2"].amount

\* the completed records of beneficiary h put in an order in which each one
\* starts from the balance the one before it left
Chained(h) ==
    LET R == Completed(h)
        n == Cardinality(R)
    IN  \E f \in [1..n -> R] :
            /\ \A i, j \in 1..n : i # j => f[i] # f[j]
            /\ n = 0 => balance[h] = balance0[h]
            /\ n > 0 =>
                 /\ f[1].balance_before = balance0[h]
                 /\ \A i \in 2..n : f[i].balance_before = f[i-1].balance_after
                 /\ balance[h] = f[n].balance_after

\* only createTransaction calls worked on h, no lock expired under its
\* holder, and the calls ran undisturbed (record in place, no Redis error)
OnlyTransactions(h) ==
    /\ \A c \in Calls : ~(IsAlloc(c) /\ call[c].hid = h)
    /\ expired = {}
    /\ hExists[h]
    /\ INFRA_FAULT \notin Results("c1", "c2")

\* C17: with only createTransaction operations on a beneficiary and no lock
\* expiring while held, once all calls have finished the beneficiary's
\* completed records form one chain from the initial balance to the stored
\* balance.
C17_RecordsFormAChain ==
    \A h \in Homeless : AllDone /\ OnlyTransactions(h) => Chained(h)

\* two purchases of different amounts by the same beneficiary, both recorded
C17_Witness ==
    /\ AllDone /\ OnlyTransactions("h1")
    /\ Cardinality(Completed("h1")) = 2
    /\ \E t, u \in Completed("h1") :
          /\ t.balance_before = balance0["h1"]
          /\ u.balance_before = t.balance_after
          /\ t.amount # u.amount
          /\ balance["h1"] = u.balance_after

\* a step of an allocation call
AllocStep(c) ==
    \/ StepFrom(c, "idle") /\ call'[c].kind = "alloc"
    \/ StepFrom(c, "a_limit")
    \/ StepFrom(c, "a_ceiling")
    \/ StepFrom(c, "a_record")
    \/ StepFrom(c, "a_exists")
    \/ StepFrom(c, "a_balance")
    \/ StepFrom(c, "a_stamp")

\* C18: no step of allocate sets, deletes or looks at a lock key: the lock
\* keys stay as they are, no allocation is turned away for a held lock, and
\* its balance write goes through while a createTransaction holds the lock.
\* The interleaving the claim speaks of is C18_Witness.
C18_AllocIgnoresLock ==
    [][\A c \in Calls : AllocStep(c) =>
          /\ lock' = lock
          /\ call'[c].result # TRANSACTION_LOCKED
          /\ StepFrom(c, "a_exists") /\ hExists[call[c].hid] =>
               call'[c].pc = "a_balance"
          /\ StepFrom(c, "a_balance") =>
               /\ balance'[call[c].hid] = call[c].ba
               /\ call'[c].pc = "a_stamp"
          /\ StepFrom(c, "a_stamp") => call'[c].result = OK]_vars

\* one allocate (x) and one createTransaction (y) on the same beneficiary,
\* both reporting success, no lock expiry, record in place: the stored
\* balance is not b + x - y
C18_Witness ==
    \E c, d \in Calls :
        /\ IsAlloc(c) /\ IsTx(d) /\ Done(c) /\ Done(d)
        /\ call[c].result = OK /\ call[d].result = OK
        /\ call[c].hid = call[d].hid
        /\ expired = {} /\ hExists[call[c].hid]
        /\ Cardinality(allocs) = 1 /\ Cardinality(txs) = 1
        /\ balance[call[c].hid] #
              balance0[call[c].hid] + call[c].amount - call[d].amount

\* C19: in every reachable state every Allocation record has
\* balance_after = balance_before + amount and amount > 0.
C19_AllocationArithmetic ==
    \A a \in allocs :
        /\ a.balance_after = a.balance_before + a.amount
        /\ a.amount > 0

\* two allocations to the same beneficiary are on record, the second one
\* starting from the balance the first one left
C19_Witness ==
    \E a, b \in allocs :
        /\ a.id # b.id /\ a.homeless_id = b.homeless_id
        /\ b.balance_before = a.balance_after
        /\ b.balance_after = b.balance_before + b.amount

\* the first step of an allocation call, its request body being remembered
AllocChecked(c) ==
    StepFrom(c, "idle") /\ call'[c].kind = "alloc" /\ call'[c].request # NoReq

\* the number a stored setting stands for at this moment: the value under
\* config:{k}, the seeded one when there is no such hash, and d when the
\* value spells no number
Setting(k, d) ==
    LET v == IF config[k] # None THEN config[k]
             ELSE IF k = "max_allocation_limit" THEN "1000" ELSE "10000"
    IN  IF \E n \in Numbers : ToString(n) = v
        THEN CHOOSE n \in Numbers : ToString(n) = v
        ELSE d

\* C20: allocate on an active beneficiary is rejected with
\* AllocationLimitExceeded exactly when amount > the maximum the request read
\* from the settings (the stored max_allocation_limit of that moment, 1000
\* when it spells no number), an amount equal to it passing this check and
\* the balance having no say in it; the details are max_limit = that maximum
\* and requested = amount, and the rejection leaves the balance as it is and
\* writes no Allocation record.  No other step gives this answer.
C20_AllocationLimit ==
    [][\A c \in Calls :
          /\ AllocChecked(c) =>
               LET r == call'[c].request
                   h == r.homeless_id
               IN  hExists[h] /\ ~Unreadable(h) /\ hStatus[h] = ACTIVE =>
                     /\ call'[c].pc = "a_limit"
                     /\ call'[c].amount = r.amount
          /\ StepFrom(c, "a_limit") =>
               /\ call'[c].pc = "a_ceiling"
               /\ call'[c].limit = Setting("max_allocation_limit", 1000)
               /\ call'[c].amount = call[c].amount
          /\ StepFrom(c, "a_ceiling") =>
               LET over == call[c].amount > call[c].limit
               IN  /\ (call'[c].result = ALLOCATION_LIMIT_EXCEEDED) <=> over
                   /\ over =>
                        /\ call'[c].pc = "done"
                        /\ call'[c].details =
                              [NoDetails EXCEPT !.max_limit = call[c].limit,
                                                !.requested = call[c].amount]
                        /\ balance' = balance /\ allocs' = allocs
                        /\ \A a \in allocs' : a.id # c
          /\ call'[c].result = ALLOCATION_LIMIT_EXCEEDED
               /\ call[c].result # ALLOCATION_LIMIT_EXCEEDED
               => call[c].pc = "a_ceiling"]_vars

\* under the seeded settings a request above both limits at once was rejected
\* for the allocation limit, and one of exactly the maximum went through
C20_Witness ==
    /\ config = SeededConfig
    /\ call["c1"].result = ALLOCATION_LIMIT_EXCEEDED
    /\ call["c1"].request.amount = AllocLimit + 1
    /\ balance[call["c1"].request.homeless_id] + call["c1"].request.amount > BalanceLimit
    /\ call["c1"].details.max_limit = AllocLimit
    /\ call["c1"].details.requested = call["c1"].request.amount
    /\ call["c2"].result = OK /\ IsAlloc("c2") /\ call["c2"].amount = AllocLimit
    /\ \A a \in allocs : a.id = "c2"

\* C21: allocate on an active beneficiary with amount <= the maximum
\* allocation is rejected with BalanceLimitExceeded exactly when
\* balance_before + amount > the stored max_balance_limit of the moment the
\* request reads it (10000 when it spells no number), balance_before being
\* the balance read with the record; the details are that balance, the amount
\* and the limit; the rejection changes no balance and writes no Allocation
\* record; a result equal to the limit goes on to the writes.  No other step
\* gives this answer.
C21_BalanceLimit ==
    [][\A c \in Calls :
          /\ AllocChecked(c) /\ call'[c].pc # "done" =>
               call'[c].bb = balance[call'[c].request.homeless_id]
          /\ StepFrom(c, "a_limit") => call'[c].bb = call[c].bb
          /\ StepFrom(c, "a_ceiling") /\ call[c].amount <= call[c].limit =>
               LET lim == Setting("max_balance_limit", 10000)
                   over == call[c].bb + call[c].amount > lim
               IN  /\ (call'[c].result = BALANCE_LIMIT_EXCEEDED) <=> over
                   /\ over =>
                        /\ call'[c].pc = "done"
                        /\ call'[c].details =
                              [NoDetails EXCEPT !.current_balance = call[c].bb,
                                                !.requested = call[c].amount,
                                                !.max_limit = lim]
                        /\ balance' = balance /\ allocs' = allocs
                        /\ \A a \in allocs' : a.id # c
                   /\ ~over =>
                        /\ call'[c].pc = "a_record"
                        /\ call'[c].ba = call[c].bb + call[c].amount
          /\ call'[c].result = BALANCE_LIMIT_EXCEEDED
               /\ call[c].result # BALANCE_LIMIT_EXCEEDED
               => call[c].pc = "a_ceiling" /\ call[c].amount <= call[c].limit]_vars

\* the balance limit having been lowered by a PATCH /config, an allocation
\* that brought the balance to exactly the new limit went through; the next
\* one, one point above it, was rejected with the new limit in its details
\* and left the balance
C21_Witness ==
    /\ config["max_balance_limit"] = ToString(BalanceLimit - 1)
    /\ call["c2"].result = OK /\ IsAlloc("c2") /\ call["c2"].ba = BalanceLimit - 1
    /\ call["c1"].result = BALANCE_LIMIT_EXCEEDED
    /\ call["c1"].request.homeless_id = call["c2"].hid
    /\ call["c1"].details.current_balance = BalanceLimit - 1
    /\ call["c1"].details.max_limit = BalanceLimit - 1
    /\ call["c1"].details.requested = call["c1"].request.amount
    /\ balance[call["c2"].hid] = BalanceLimit - 1
    /\ \A a \in allocs : a.id = "c2"

\* C22: a successful allocate persists the new balance first and writes the
\* Allocation record after it: in no reachable state is there an Allocation
\* record whose call has not yet made its balance write.
C22_BalanceBeforeRecord ==
    \A a \in allocs : call[a.id].pc \notin {"a_exists", "a_balance"}

\* C23: allocate for a beneficiary id that resolves to no record, or for a
\* beneficiary whose status is not active, is rejected at once, whatever the
\* amount and the balance are, with the answer of that check; it changes no
\* balance and writes no Allocation record.  A record that cannot be parsed
\* (a status cleared by an update among the cases) ends the request as early
\* and as empty-handed, with the parse error.
C23_RejectedBeforeLimits ==
    [][\A c \in Calls :
          AllocChecked(c) =>
              LET r == call'[c].request
                  h == r.homeless_id
              IN  Unreadable(h) \/ ~hExists[h] \/ hStatus[h] # ACTIVE =>
                    /\ call'[c].pc = "done"
                    /\ call'[c].result =
                          IF Unreadable(h) THEN VALIDATION_ERROR
                          ELSE IF ~hExists[h] THEN ALLOC_NOT_FOUND
                          ELSE ALLOC_INACTIVE
                    /\ hStatus[h] \in {INACTIVE, SUSPENDED} /\ hExists[h] /\ ~Unreadable(h)
                          => call'[c].result = ALLOC_INACTIVE
                    /\ call'[c].details = NoDetails
                    /\ balance' = balance /\ allocs' = allocs
                    /\ \A a \in allocs' : a.id # c]_vars

\* an amount above the allocation limit for a suspended beneficiary was
\* answered with the status rejection
C23_Witness ==
    /\ call["c1"].result = ALLOC_INACTIVE
    /\ call["c1"].request.homeless_id = "h2" /\ hStatus["h2"] = SUSPENDED
    /\ call["c1"].request.amount > AllocLimit
    /\ balance = balance0 /\ allocs = {}

\* a Redis error strikes call c in the income increment or the ledger write
FaultAfterDebit(c) ==
    /\ StepFrom(c, "t_income") \/ \E i \in 1..4 : StepFrom(c, LedgerPcs[i])
    /\ call'[c].exc = INFRA_FAULT

\* C30: once the new balance is persisted, a fault in the income increment or
\* in the ledger write is not compensated: the step of the fault and the
\* finally block leave the balance as debited, and the caller gets the fault.
C30_NoCompensation ==
    [][\A c \in Calls :
          /\ FaultAfterDebit(c) =>
               /\ call'[c].pc = "t_release"
               /\ balance' = balance
          /\ StepFrom(c, "t_release") /\ call[c].exc = INFRA_FAULT =>
               /\ call'[c].pc = "done"
               /\ call'[c].result = INFRA_FAULT
               /\ balance' = balance /\ income' = income /\ txs' = txs]_vars

\* the caller got the fault, the balance is debited, the store was not
\* credited and the ledger has no record
C30_Witness ==
    /\ Done("c1") /\ IsTx("c1") /\ call["c1"].result = INFRA_FAULT
    /\ call["c2"].pc = "idle"
    /\ call["c1"].amount > 0
    /\ balance[call["c1"].hid] = balance0[call["c1"].hid] - call["c1"].amount
    /\ income = [s \in Stores |-> 0]
    /\ txs = {} /\ lock[call["c1"].hid] = Absent

\* a purchase request arrives, its body being remembered: the first step of
\* call d
Arrives(d) == StepFrom(d, "idle") /\ call'[d].kind = "tx" /\ call'[d].request # NoReq

\* a reissue call, and one that overlapped no other reissue of the same
\* beneficiary: neither began while the other was in progress
IsReissue(c) == call[c].kind = "reissue"
ReissueStep(c) == call'[c] # call[c] /\ call'[c].kind = "reissue"
AloneReissue(c) ==
    /\ IsReissue(c) /\ ~call[c].beside
    /\ \A d \in Calls \ {c} :
          IsReissue(d) /\ call[d].hid = call[c].hid => ~call[d].beside

\* C24: no step of reissueQRCode changes the beneficiary's record id or
\* balance; when a reissue of an existing beneficiary that overlapped no
\* other reissue of it ends, the old code resolves to nobody, the new code
\* and no other resolves to the same id (a lookup by it returns the record,
\* or raises where an update has left the record unparsable), and from then
\* on a createTransaction that carries the old code fails with
\* BeneficiaryNotFound.
C24_ReissuePreservesIdentity ==
    [][\A c \in Calls :
          /\ ReissueStep(c) =>
               /\ hExists' = hExists /\ balance' = balance /\ hStatus' = hStatus
               /\ call[c].pc = "idle" /\ call'[c].pc # "done" =>
                     get_by_id(call'[c].hid) = call'[c].hid
               /\ call[c].pc # "idle" => call'[c].hid = call[c].hid
          /\ StepFrom(c, "r_index") /\ AloneReissue(c) /\ hExists[call[c].hid] =>
               LET h == call[c].hid IN
               /\ call'[c].result = OK
               /\ call[c].arg # call[c].hqr
               /\ hQrIndex'[call[c].hqr] = None
               /\ get_by_qr_code(call[c].hqr)' = None
               /\ hQrIndex'[call[c].arg] = h
               /\ get_by_qr_code(call[c].arg)' =
                     IF Unreadable(h) THEN VALIDATION_ERROR ELSE h
               /\ hQrCode'[h] = call[c].arg
               /\ \A q \in QRCodes : hQrIndex'[q] = h => q = call[c].arg
          /\ \A d \in Calls \ {c} :
               /\ Done(c) /\ AloneReissue(c) /\ call[c].result = OK
               /\ Arrives(d) /\ call'[d].request.hqr = call[c].hqr
               => call'[d].pc = "done" /\ call'[d].result = HOMELESS_NOT_FOUND]_vars

\* h1 got a new code; the purchase that then carried the old code was
\* rejected with BeneficiaryNotFound naming that code
C24_Witness ==
    /\ Done("c1") /\ IsReissue("c1") /\ call["c1"].result = OK
    /\ call["c1"].hid = "h1" /\ call["c1"].hqr = "qh1"
    /\ hExists["h1"] /\ balance["h1"] = balance0["h1"]
    /\ hQrIndex["qh1"] = None /\ hQrIndex[call["c1"].arg] = "h1"
    /\ Done("c2") /\ IsTx("c2") /\ call["c2"].request.hqr = "qh1"
    /\ call["c2"].result = HOMELESS_NOT_FOUND
    /\ call["c2"].details = RefDetails("qh1")

\* the keys other than user:{id} that hold the id of user u
UserTraces(u) ==
    {<<"username", n>> : n \in {m \in Usernames : users.byName[m] = u}}
    \cup {<<"role", r>> : r \in {q \in Roles : u \in users.byRole[q]}}
    \cup {<<"all", None>> : x \in {y \in {u} : y \in users.all}}
    \cup {<<"association", a>> : a \in {b \in Associations : u \in users.byAssoc[b]}}

\* user request r is over or has not begun
Settled(r) == users.req[r].pc \in {"idle", "done"}

\* C25: when a user added with create is hard-deleted, the username index,
\* the role sets, the all-users set and every association's users set are
\* free of that user's id: so it is once a delete that arrived after the
\* create had returned is over and no user request is in progress.
C25_DeleteLeavesNoTrace ==
    \A r \in UserCalls :
        /\ \A q \in UserCalls : Settled(q)
        /\ users.req[r].op = "delete" /\ users.req[r].pc = "done"
        /\ users.req[r].result = OK /\ users.req[r].settled
        => UserTraces(users.req[r].id) = {}

\* call c deleted a beneficiary that existed
IsDelete(c) == call[c].kind = "delete"
Deleted(c) == Done(c) /\ IsDelete(c) /\ call[c].result = OK

\* the record of beneficiary h is as a delete leaves it: parsable, inactive,
\* its code indexed
SoftDeleted(h) ==
    /\ hExists[h] /\ ~Unreadable(h) /\ hStatus[h] = INACTIVE
    /\ hQrIndex[hQrCode[h]] = h

\* C26: deleting a beneficiary only sets its status to inactive: the record,
\* the balance, the QR code and its index entry stay, whatever the request
\* answers (404 for no record, the parse error for a record an update left
\* unparsable, success otherwise); as long as the record is as the delete
\* left it, a createTransaction with that beneficiary's QR code finds the
\* beneficiary and fails with BeneficiaryInactive, and an allocate for it is
\* rejected without any write.
C26_DeleteIsSoft ==
    [][\A c \in Calls :
          /\ call'[c] # call[c] /\ call'[c].kind = "delete" =>
               /\ hExists' = hExists /\ balance' = balance
               /\ hQrIndex' = hQrIndex /\ hQrCode' = hQrCode
               /\ hName' = hName /\ idNumbers' = idNumbers
               /\ hStatus' = IF call[c].pc = "u_hset"
                             THEN [hStatus EXCEPT ![call[c].hid] = INACTIVE]
                             ELSE hStatus
               /\ call[c].pc = "idle" =>
                     IF call'[c].pc = "done"
                     THEN \/ /\ call'[c].result = HTTP_NOT_FOUND
                             /\ \E h \in Homeless : get_by_id(h) = None
                          \/ /\ call'[c].result = VALIDATION_ERROR
                             /\ \E h \in Homeless : Unreadable(h)
                     ELSE get_by_id(call'[c].hid) = call'[c].hid
               /\ call[c].pc # "idle" /\ call'[c].pc = "done" =>
                     /\ call[c].pc \in {"u_read", "u_final"}
                     /\ call'[c].result =
                           IF Unreadable(call[c].hid) THEN VALIDATION_ERROR ELSE OK
          /\ \A d \in Calls \ {c} :
               Deleted(c) /\ SoftDeleted(call[c].hid) =>
                 /\ Arrives(d) /\ call'[d].request.hqr = hQrCode[call[c].hid] =>
                      /\ call'[d].pc = "t_homeless"
                      /\ call'[d].hid = call[c].hid
                 /\ StepFrom(d, "t_homeless") /\ call[d].hid = call[c].hid =>
                      /\ call'[d].result = HOMELESS_INACTIVE
                      /\ call'[d].pc = "done"
                 /\ AllocChecked(d) /\ call'[d].request.homeless_id = call[c].hid =>
                      /\ call'[d].result = ALLOC_INACTIVE
                      /\ call'[d].pc = "done"
                      /\ balance' = balance /\ allocs' = allocs]_vars

\* h1 was deleted and is still there with its balance and its code; the
\* purchase that came next with that code was told BeneficiaryInactive
C26_Witness ==
    /\ Deleted("c1") /\ call["c1"].hid = "h1"
    /\ hExists["h1"] /\ hStatus["h1"] = INACTIVE
    /\ balance["h1"] = balance0["h1"] /\ balance["h1"] > 0
    /\ hQrIndex["qh1"] = "h1" /\ hQrCode["h1"] = "qh1"
    /\ Done("c2") /\ IsTx("c2") /\ call["c2"].request.hqr = "qh1"
    /\ call["c2"].result = HOMELESS_INACTIVE

\* the records of a ledger that are not in the other ledger as they are
Altered(before, after) == {r \in before : r \notin after}

\* C27: Transaction and Allocation records are immutable: every record in
\* the store is there, with every field as it was written, after any step of
\* createTransaction, allocate, a beneficiary or store update, a delete or a
\* QR reissue, and no step writes a second record under an id in use.
C27_RecordsImmutable ==
    [][/\ Altered(txs, txs') = {}
       /\ Altered(allocs, allocs') = {}
       /\ \A r \in txs' \ txs : \A t \in txs : t.id # r.id
       /\ \A r \in allocs' \ allocs : \A a \in allocs : a.id # r.id]_vars

\* a purchase of h1 was recorded, then h1 was deleted: the record is as written
C27_Witness ==
    /\ Done("c1") /\ IsTx("c1") /\ call["c1"].result = OK /\ call["c1"].hid = "h1"
    /\ Deleted("c2") /\ hStatus["h1"] = INACTIVE
    /\ \E t \in txs :
         /\ t.id = "c1" /\ t.homeless_id = "h1"
         /\ t.balance_before = balance0["h1"]
         /\ t.balance_after = balance0["h1"] - call["c1"].amount
    /\ Cardinality(txs) = 1

\* the members of the history indexes that name transaction id
IndexedAs(idx, id) == {e \in txIndex : e.idx = idx /\ e.id = id}

\* C28: the id of a createTransaction call that succeeded is a member of the
\* beneficiary's history set, of the store's history set and of exactly one
\* daily bucket; and in every state every member of any of these indexes is
\* the id of an existing Transaction record.
C28_HistoryIndexes ==
    /\ \A c \in Calls : Done(c) /\ IsTx(c) /\ call[c].result = OK =>
         /\ IndexedAs("homeless", c) = {[idx |-> "homeless", of |-> call[c].hid, id |-> c]}
         /\ IndexedAs("store", c) = {[idx |-> "store", of |-> call[c].sid, id |-> c]}
         /\ Cardinality(IndexedAs("daily", c)) = 1
    /\ \A e \in txIndex : \E t \in txs : t.id = e.id

\* two purchases succeeded on either side of midnight, each in its own daily
\* bucket, both in the history of h1
C28_Witness ==
    /\ \A c \in Calls : Done(c) /\ IsTx(c) /\ call[c].result = OK /\ call[c].hid = "h1"
    /\ [idx |-> "daily", of |-> "d1", id |-> "c1"] \in txIndex
    /\ [idx |-> "daily", of |-> "d2", id |-> "c2"] \in txIndex
    /\ Cardinality(IndexedAs("homeless", "c1") \cup IndexedAs("homeless", "c2")) = 2
    /\ Cardinality(txs) = 2

\* call c stopped while the lock of h was its own
CrashedHolding(c, h) == call[c].pc = "crashed" /\ lock[h].owner = c

\* C29: when a createTransaction call stops after acquiring the lock and
\* before releasing it, the lock key is eventually gone (it expires), and a
\* createTransaction that asks for the lock of a beneficiary whose key is
\* gone acquires it instead of failing with TransactionLocked.
C29_CrashedHolderExpires ==
    /\ \A c \in Calls : \A h \in Homeless :
         CrashedHolding(c, h) ~> (lock[h] = Absent)
    /\ [][\A d \in Calls :
            StepFrom(d, "t_lock") /\ lock[call[d].hid] = Absent =>
               /\ call'[d].pc = "t_reread"
               /\ lock'[call[d].hid].owner = d]_vars

\* c1 debited h1 and stopped without releasing; c2 read the debited balance
\* under the lock it got after the key of c1 had expired, and finished
C29_Witness ==
    /\ call["c1"].pc = "crashed" /\ call["c1"].hid = "h1"
    /\ balance0["h1"] - call["c1"].amount = call["c2"].bb
    /\ Done("c2") /\ IsTx("c2") /\ call["c2"].hid = "h1"
    /\ call["c2"].result = OK
    /\ lock["h1"] = Absent

\* a step of a beneficiary update, a soft delete or a QR reissue
ManagementStep(c) ==
    call'[c] # call[c]
       /\ call'[c].kind \in {"update", "update_idn", "update_name", "delete", "reissue"}

\* C31: a beneficiary's balance is written only by the balance write of
\* createTransaction (balance_before - amount) and by the balance write of
\* allocate (balance_before + amount); no step of a beneficiary update, a
\* soft delete or a QR reissue changes any balance, whatever runs beside it.
C31_OnlyEnginesWriteBalance ==
    [][/\ \A h \in Homeless : balance'[h] # balance[h] =>
             \E c \in Calls :
                \/ /\ StepFrom(c, "t_debit") /\ call[c].homeless = h
                   /\ balance'[h] = call[c].bb - call[c].amount
                \/ /\ StepFrom(c, "a_balance") /\ call[c].hid = h
                   /\ balance'[h] = call[c].bb + call[c].amount
       /\ \A c \in Calls : ManagementStep(c) => balance' = balance]_vars

\* h1 was deleted while a purchase on h1 stood between its status check and
\* its balance write: the balance is the initial one
C31_Witness ==
    /\ call["c1"].pc = "t_debit" /\ call["c1"].hid = "h1"
    /\ Deleted("c2") /\ call["c2"].hid = "h1" /\ hStatus["h1"] = INACTIVE
    /\ balance["h1"] = balance0["h1"]

\* C32: the lock is per beneficiary: the acquisition step of a
\* createTransaction looks at and writes the key of its own beneficiary only,
\* so it fails with TransactionLocked only when that key exists, whatever
\* other keys exist; calls on distinct beneficiaries hold their locks at the
\* same time (C32_Witness).
C32_LockPerBeneficiary ==
    [][\A c \in Calls : StepFrom(c, "t_lock") =>
          LET h == call[c].hid IN
          /\ \A g \in Homeless \ {h} : lock'[g] = lock[g]
          /\ call'[c].result = TRANSACTION_LOCKED <=> lock[h] # Absent
          /\ lock[h] = Absent => call'[c].pc = "t_reread" /\ lock'[h].owner = c]_vars

\* both calls are inside their critical sections, each holding the lock of
\* its own beneficiary
C32_Witness ==
    /\ call["c1"].pc \in InTry /\ call["c2"].pc \in InTry
    /\ call["c1"].hid = "h1" /\ call["c2"].hid = "h2"
    /\ lock["h1"].owner = "c1" /\ lock["h2"].owner = "c2"

\* the members of the listed history created between start and end inclusive
Matching ==
    {e \in listing.zset :
        /\ listing.start_date = NoDate \/ e.score >= listing.start_date
        /\ listing.end_date = NoDate \/ e.score <= listing.end_date}

\* the smaller of two numbers
Least(a, b) == IF a < b THEN a ELSE b

\* C33: a history listing with an optional date range returns as total the
\* number of the entity's transactions created between start and end
\* inclusive, whatever page and limit are, and as items the slice
\* [(page-1)*limit, page*limit) of them, newest first: the pages 1, 2, ...
\* put one after the other are those transactions in that order, each once.
C33_PagedHistory ==
    listing.op = "history" /\ listing.page >= 1 =>
       LET n == Cardinality(Matching)
           covered == Least(listing.page * listing.limit, n)
           seen == listing.seen
       IN  /\ listing.total = n
           /\ Len(seen) = covered
           /\ Len(listing.items) = covered - (listing.page - 1) * listing.limit
           /\ listing.items = SubSeq(seen, Len(seen) - Len(listing.items) + 1, Len(seen))
           /\ \A i \in 1..Len(seen) : seen[i] \in Matching
           /\ \A i, j \in 1..Len(seen) : i < j =>
                 seen[i] # seen[j] /\ seen[i].score >= seen[j].score
           /\ \A e \in Matching : \A i \in 1..Len(seen) :
                 e.score > seen[i].score => \E j \in 1..(i - 1) : seen[j] = e

\* the second page of a history of three, of which the range takes two
C33_Witness ==
    /\ listing.op = "history" /\ listing.page = 2 /\ listing.limit = 1
    /\ Cardinality(listing.zset) = 3 /\ listing.total = 2
    /\ listing.start_date # NoDate
    /\ Len(listing.seen) = 2 /\ Len(listing.items) = 1
    /\ listing.seen[1].score > listing.seen[2].score

\* the record ids of the buckets from the start day through the end day
InReportRange ==
    UNION {listing.buckets[d] : d \in {e \in CalendarDays :
              NotAfter(listing.start_date, e) /\ NotAfter(e, listing.end_date)}}

\* C34: a listing over all records with a date range, start day <= end day,
\* ends normally, also when the range runs past the last day of a month, and
\* returns every record of every daily bucket from the start day through the
\* end day.
C34_ReportCoversRange ==
    listing.op = "report" /\ listing.result # None =>
        /\ listing.result = OK
        /\ listing.ids = InReportRange

\* C35: the release step of a createTransaction call deletes a lock key only
\* when that call set it: it never removes the key of a different call that
\* acquired the lock after the releasing call's own key had expired.
C35_ReleaseOwnLockOnly ==
    [][\A c \in Calls : StepFrom(c, "t_release") =>
          \A h \in Homeless : lock'[h] # lock[h] => lock[h].owner = c]_vars

\* C36: no createTransaction writes a new balance for a beneficiary that is
\* not active at the moment of the write: a call whose beneficiary was
\* deactivated after its status check does not go on to debit and complete.
C36_NoDebitOfInactive ==
    [][\A c \in Calls :
          StepFrom(c, "t_debit") /\ call'[c].exc = None =>
              hStatus[call[c].hid] = ACTIVE]_vars

\* the beneficiaries whose record has id_number n
WithIdNumber(n) == {h \in Homeless : hExists[h] /\ idNumbers.field[h] = n}

\* C37: after any sequence of beneficiary create and update operations (no
\* request being in progress) a lookup by national id n returns a beneficiary
\* exactly when some record has id_number n, and the beneficiary it returns
\* is one of those.
C37_IdNumberIndexConsistent ==
    (\A c \in Calls : ~InProgress(c)) =>
        \A n \in IdNumbers :
           /\ get_by_id_number(n) # None <=> WithIdNumber(n) # {}
           /\ get_by_id_number(n) # None => get_by_id_number(n) \in WithIdNumber(n)

\* the QR codes that resolve to beneficiary h
CodesOf(h) == {q \in QRCodes : get_by_qr_code(q) = h}

\* C38: once every reissue of a beneficiary's QR code has finished, however
\* the reissues interleaved, exactly one code resolves to the beneficiary and
\* it is the code of the record's qr_code field.
C38_OneCodeAfterReissues ==
    \A h \in Homeless :
       /\ hExists[h]
       /\ \A c \in Calls : IsReissue(c) /\ call[c].hid = h /\ Done(c)
       => CodesOf(h) = {hQrCode[h]}

\* C39: with max_balance_limit constant and every balance starting at or
\* below it, no interleaving of allocate and createTransaction calls,
\* overlapping allocations included, brings a balance above max_balance_limit.
C39_BalanceWithinLimit ==
    \A h \in Homeless : balance0[h] <= max_balance_limit => balance[h] <= max_balance_limit

\* two allocations on h1 overlapped: both read the same balance just under
\* the limit and both wrote the limit
C39_Witness ==
    /\ \A c \in Calls : Done(c) /\ IsAlloc(c) /\ call[c].result = OK /\ call[c].hid = "h1"
    /\ call["c1"].bb = call["c2"].bb
    /\ call["c1"].bb + call["c1"].amount = max_balance_limit
    /\ balance["h1"] = max_balance_limit
    /\ Cardinality(allocs) = 2

\* the Allocation records of beneficiary h
AllocationsOf(h) == {a \in allocs : a.homeless_id = h}

\* C40: when no allocation overlaps another call on its beneficiary and no
\* lock expires while held, then once all calls have finished (none by a
\* Redis error, the record in place) the beneficiary's balance is its
\* initial balance plus the amounts of its Allocation records minus the
\* amounts of its completed Transaction records.
C40_PointsConserved ==
    \A h \in Homeless :
        AllDone /\ expired = {} /\ hExists[h] /\ INFRA_FAULT \notin Results("c1", "c2") =>
            balance[h] = balance0[h] + SumOfAmounts(AllocationsOf(h))
                                     - SumOfAmounts(Completed(h))

\* an allocation and a purchase of different amounts on h1, both recorded
C40_Witness ==
    /\ AllDone /\ expired = {} /\ hExists["h1"]
    /\ IsAlloc("c1") /\ IsTx("c2")
    /\ call["c1"].result = OK /\ call["c2"].result = OK
    /\ call["c1"].hid = "h1" /\ call["c2"].hid = "h1"
    /\ call["c1"].amount # call["c2"].amount
    /\ Cardinality(AllocationsOf("h1")) = 1
    /\ Cardinality(Completed("h1")) = 1
    /\ balance["h1"] = balance0["h1"] + call["c1"].amount - call["c2"].amount

====
